---- MODULE Spec2Model ----
(***************************************************************************)
(* Verification model of wslattr: the NTFS extended-attribute (EA) chain   *)
(* codec (src/src/ea_parse.rs), the lxfs ("Compact") and wslfs             *)
(* ("Scattered") attribute codecs (src/src/lxfs.rs, src/src/wslfs.rs) and  *)
(* the wslfs -> lxfs migration `downgrade` (src/src/main.rs).              *)
(*                                                                         *)
(* Buffers are sequences of bytes (0..255).  Offsets are 0-based as in the *)
(* source; Byte(buf, off) is the byte at offset off.                       *)
(***************************************************************************)
EXTENDS Integers, Sequences, FiniteSets, TLC

VARIABLES
    \* ---- EA chain codec (ea_parse.rs) ----
    input,      \* entries still to be passed to EaOut::add_entry
    added,      \* entries passed to EaOut::add_entry so far, in order
    ea_out,     \* the EaOut under construction (the codec's, or downgrade's ea_out)
    starts,     \* this_index of every add_entry call so far
    phase,      \* "encode" | "buffer" | "parsed" | "reencoded"
    pbuf,       \* the buffer handed to parse_ea
    truncated,  \* pbuf was cut short of the encoder's output
    corrupted,  \* a header byte of pbuf was overwritten
    parsed,     \* result of parse_ea(pbuf)
    reparsed,   \* result of parse_ea on the re-encoding of parsed
    \* ---- one file and the migration (main.rs, lxfs.rs, wslfs.rs) ----
    disk,       \* the file on disk: EA entries, reparse tag, link target, content
    orig,       \* the file as it was when the current run opened it
    wsl_file,   \* the WslFile of the current run
    ea_buffer,  \* what read_ea().unwrap_or(None) gave the current run
    wslfs,      \* WslfsParsed of the current run
    lxfs,       \* LxfsParsed of the current run
    pc,         \* position inside downgrade_path / downgrade
    oplog,      \* OS calls issued by the current run, in order
    outcome,    \* what the current run reported
    run,        \* number of runs started on the file
    \* ---- one change command (open_to_change and its closure, main.rs) ----
    chg,        \* the codec chosen, the arguments, the setter calls so far
    \* ---- the reparse point of a symlink (ntfs_io.rs, wslfs.rs) ----
    rp,         \* the reparse data on disk, the queries made, the result
    \* ---- one file-time conversion (time_utils.rs) ----
    tm          \* the LxfsTime given, its FILETIME, the LxfsTime got back

ea_vars  == <<input, added, ea_out, starts, phase, pbuf, truncated, corrupted, parsed, reparsed, rp, tm>>
ea_rest  == <<input, added, starts, phase, pbuf, truncated, corrupted, parsed, reparsed, chg, rp, tm>>
mig_vars == <<disk, orig, wsl_file, ea_buffer, wslfs, lxfs, pc, oplog, outcome, run, chg, rp, tm>>
vars     == <<input, added, ea_out, starts, phase, pbuf, truncated, corrupted, parsed, reparsed,
              disk, orig, wsl_file, ea_buffer, wslfs, lxfs, pc, oplog, outcome, run, chg, rp, tm>>

----------------------------------------------------------------------------
\* Bounds of the model

MaxEntries  == 2    \* entries per encoded chain
MaxNameLen  == 2    \* longest EA name given to the encoder
MaxValueLen == 2    \* longest EA value given to the encoder
MaxRuns     == 2    \* downgrade runs on the same file

----------------------------------------------------------------------------
\* Bytes and little-endian integers

Max(a, b) == IF a > b THEN a ELSE b

Zeros(n) == [i \in 1..n |-> 0] \o <<>>

\* the byte at 0-based offset off; a read outside the buffer is recorded by
\* the caller (max_read), its value is immaterial
Byte(buf, off) == IF off >= 0 /\ off < Len(buf) THEN buf[off + 1] ELSE 0

\* the len bytes starting at 0-based offset off
Slice(buf, off, len) ==
    IF off + len <= Len(buf)
    THEN SubSeq(buf, off + 1, off + len)
    ELSE [i \in 1..len |-> Byte(buf, off + i - 1)] \o <<>>

\* buf with bytes written at 0-based offset off (inside buf)
Patch(buf, off, bytes) ==
    SubSeq(buf, 1, off) \o bytes \o SubSeq(buf, off + Len(bytes) + 1, Len(buf))

U16LE(x) == <<x % 256, (x \div 256) % 256>>
U32LE(x) == <<x % 256, (x \div 256) % 256, (x \div 65536) % 256, (x \div 16777216) % 256>>

RdU16(buf, off) == Byte(buf, off) + 256 * Byte(buf, off + 1)

\* a u32 field.  Values with the top bit set do not fit the checker's
\* integers; they are held as 2^31 - 2^17, which like them lies past the end
\* of every buffer (buffers are shorter than 2^17 bytes).
RdU32(buf, off) ==
    IF Byte(buf, off + 3) >= 128
    THEN 2147483647 - 131071
    ELSE Byte(buf, off) + 256 * Byte(buf, off + 1) + 65536 * Byte(buf, off + 2)
         + 16777216 * Byte(buf, off + 3)

----------------------------------------------------------------------------
\* ea_parse.rs: entry size

EA_BASE_SIZE_RAW == 9
EA_ALIGN == 4
\* size_of::<FILE_FULL_EA_INFORMATION>(): u32, u8, u8, u16, [i8; 1], padded to 4
EA_INFO_SIZE == 12
\* offset_of!(FILE_FULL_EA_INFORMATION, EaName)
EA_NAME_OFFSET == 8

\* a size computation without the rounding to EA_ALIGN
ea_entry_size_inner_unaligned(name_len, value_len) ==
    EA_BASE_SIZE_RAW + name_len + value_len

ea_entry_size_inner(name_len, value_len) ==
    LET data_len == EA_BASE_SIZE_RAW + name_len + value_len
    IN  ((data_len + EA_ALIGN - 1) \div EA_ALIGN) * EA_ALIGN

\* the casts `len() as u8` and `len() as u16`
AsU8(n)  == n % 256
AsU16(n) == n % 65536

\* EaEntry::size
EntrySize(entry) == ea_entry_size_inner(AsU8(Len(entry.name)), AsU16(Len(entry.value)))

----------------------------------------------------------------------------
\* ea_parse.rs: EaOut

NoneInfo == <<>>

EaOutDefault == [buff |-> <<>>, last_ea_info |-> NoneInfo, count |-> 0]

\* this_index of the next add_entry
ThisIndex(out) ==
    IF out.last_ea_info # NoneInfo
    THEN out.last_ea_info[1] + out.last_ea_info[2]
    ELSE 0

\* the bytes add_entry leaves in the record it appends: NextEntryOffset 0,
\* Flags 0, EaNameLength, EaValueLength, the name, the NUL that resize left
\* after it, the value
RecordBytes(entry) ==
    U32LE(0) \o <<0, AsU8(Len(entry.name))>> \o U16LE(AsU16(Len(entry.value)))
    \o SubSeq(entry.name, 1, AsU8(Len(entry.name))) \o <<0>>
    \o SubSeq(entry.value, 1, AsU16(Len(entry.value)))

\* an encoder that never patches the previous record's NextEntryOffset
add_entry_no_link(out, entry) ==
    [buff |-> out.buff \o RecordBytes(entry)
                \o Zeros(EntrySize(entry) - Len(RecordBytes(entry))),
     last_ea_info |-> <<Len(out.buff), EntrySize(entry)>>,
     count |-> out.count + 1]

\* an encoder that links the previous record with its size before rounding
add_entry_link_unaligned(out, entry) ==
    IF out.last_ea_info # NoneInfo
    THEN [buff |-> Patch(out.buff, out.last_ea_info[1],
                         U32LE(ea_entry_size_inner_unaligned(
                             Byte(out.buff, out.last_ea_info[1] + 5),
                             RdU16(out.buff, out.last_ea_info[1] + 6))))
                     \o RecordBytes(entry)
                     \o Zeros(EntrySize(entry) - Len(RecordBytes(entry))),
          last_ea_info |-> <<out.last_ea_info[1] + out.last_ea_info[2], EntrySize(entry)>>,
          count |-> out.count + 1]
    ELSE [buff |-> out.buff \o RecordBytes(entry)
                     \o Zeros(EntrySize(entry) - Len(RecordBytes(entry))),
          last_ea_info |-> <<0, EntrySize(entry)>>,
          count |-> out.count + 1]

\* EaOut::add_entry: the buffer grows by this_size zero bytes, the previous
\* record's NextEntryOffset becomes its size, the fields of the new record
\* are written at this_index (the old end of the buffer)
add_entry(out, entry) ==
    IF out.last_ea_info # NoneInfo
    THEN [buff |-> Patch(out.buff, out.last_ea_info[1], U32LE(out.last_ea_info[2]))
                     \o RecordBytes(entry)
                     \o Zeros(EntrySize(entry) - Len(RecordBytes(entry))),
          last_ea_info |-> <<out.last_ea_info[1] + out.last_ea_info[2], EntrySize(entry)>>,
          count |-> out.count + 1]
    ELSE [buff |-> out.buff \o RecordBytes(entry)
                     \o Zeros(EntrySize(entry) - Len(RecordBytes(entry))),
          last_ea_info |-> <<0, EntrySize(entry)>>,
          count |-> out.count + 1]

RECURSIVE AddFrom(_, _)
\* add_entry for the entries of a list that out does not hold yet, in order
AddFrom(out, entries) ==
    IF out.count >= Len(entries) THEN out
    ELSE AddFrom(add_entry(out, entries[out.count + 1]), entries)

\* a fresh EaOut (EaOut::default()) after add_entry for every entry of a list
AddAll(entries) == AddFrom(EaOutDefault, entries)

----------------------------------------------------------------------------
\* ea_parse.rs: parse_ea_to_iter / parse_ea

NULL == -1

\* Iter { buf, ea_ptr: buf.as_ptr() } and the list collected so far
IterInit(buf) ==
    [buf |-> buf, ea_ptr |-> 0, status |-> "running", entries |-> <<>>, max_read |-> 0]

\* the record at st.ea_ptr as (offset, flags, name, value)
EntryAt(buf, ptr) ==
    LET name_len  == Byte(buf, ptr + 5)
        value_len == RdU16(buf, ptr + 6)
    IN  [off   |-> ptr,
         flags |-> Byte(buf, ptr + 4),
         name  |-> Slice(buf, ptr + EA_NAME_OFFSET, name_len),
         value |-> Slice(buf, ptr + EA_NAME_OFFSET + name_len + 1, value_len)]

\* a decoder that reads the header before checking that it lies in the buffer
IterNext_no_header_check(st) ==
    IF st.ea_ptr = NULL THEN [st EXCEPT !.status = "ok"]
    ELSE
        LET ptr       == st.ea_ptr
            len       == Len(st.buf)
            name_len  == Byte(st.buf, ptr + 5)
            value_len == RdU16(st.buf, ptr + 6)
            next      == RdU32(st.buf, ptr)
            pea_end   == ptr + ea_entry_size_inner(name_len, value_len)
            e         == EntryAt(st.buf, ptr)
        IN  IF pea_end > len
            THEN [st EXCEPT !.status = "panic",
                            !.max_read = Max(@, ptr + EA_NAME_OFFSET)]
            ELSE [st EXCEPT !.ea_ptr = IF next = 0 THEN NULL ELSE ptr + next,
                            !.entries = Append(@, e),
                            !.max_read = Max(@, ptr + EA_BASE_SIZE_RAW + name_len + value_len)]

\* Iter::next.  status "ok" is the iterator's None (end of the list), "panic"
\* a failed assert!; max_read is the end of the highest byte range the
\* iterator has dereferenced or handed out.
IterNext(st) ==
    IF st.ea_ptr = NULL THEN [st EXCEPT !.status = "ok"]
    ELSE
        LET ptr       == st.ea_ptr
            len       == Len(st.buf)
        IN  \* assert!(ea_ptr.add(size_of::<FILE_FULL_EA_INFORMATION>()) <= buf_range.end)
            IF ptr + EA_INFO_SIZE > len
            THEN [st EXCEPT !.status = "panic"]
            ELSE
                LET name_len  == Byte(st.buf, ptr + 5)
                    value_len == RdU16(st.buf, ptr + 6)
                    next      == RdU32(st.buf, ptr)
                    pea_end   == ptr + ea_entry_size_inner(name_len, value_len)
                    e         == EntryAt(st.buf, ptr)
                IN  \* assert!(pea_end <= buf_range.end)
                    IF pea_end > len
                    THEN [st EXCEPT !.status = "panic",
                                    !.max_read = Max(@, ptr + EA_NAME_OFFSET)]
                    ELSE [st EXCEPT !.ea_ptr = IF next = 0 THEN NULL ELSE ptr + next,
                                    !.entries = Append(@, e),
                                    !.max_read = Max(@, ptr + EA_BASE_SIZE_RAW + name_len + value_len)]

RECURSIVE Collect(_)
\* .collect(): call next until it returns None or panics
Collect(st) ==
    IF st.status # "running" THEN st ELSE Collect(IterNext(st))

\* parse_ea
parse_ea(buf) == Collect(IterInit(buf))

NotParsed == [buf |-> <<>>, ea_ptr |-> NULL, status |-> "none", entries |-> <<>>, max_read |-> 0]

\* an entry list without the record offsets
Fnv(entries) == [i \in 1..Len(entries) |->
                    [flags |-> entries[i].flags, name |-> entries[i].name, value |-> entries[i].value]]
                \o <<>>
Nv(entries)  == [i \in 1..Len(entries) |->
                    [name |-> entries[i].name, value |-> entries[i].value]] \o <<>>

----------------------------------------------------------------------------
\* posix.rs / time_utils.rs / lxfs.rs: modes, times, device numbers

ST_MODE_TYPE_LNK  == 40960      \* 0o0120000
ST_MODE_TYPE_MASK == 61440      \* 0o0170000
DEFAULT_MODE      == 33188      \* 0o0100644

\* st_mode & ST_MODE_TYPE_MASK: the mask is bits 12..15 of a value below 2^16
\* or above; the bits below 2^12 and from 2^16 up are dropped
ModeTypeBits(st_mode) ==
    (st_mode % (ST_MODE_TYPE_MASK + 4096)) - (st_mode % 4096)

\* StModeType::from_mode(mode) == StModeType::LNK
IsLnkMode(st_mode) == ModeTypeBits(st_mode) = ST_MODE_TYPE_LNK

\* A FILETIME t64 (100 ns ticks since 1601) is held as [sec, ns100] with
\* t64 = (11644473600 + sec) * 10^7 + ns100, because neither t64 nor the
\* epoch offset fits the checker's integers.
\* u64_to_lxfs_time: (t64 / 10^7 - 11644473600, (t64 % 10^7) * 100)
u64_to_lxfs_time(t64) == [tv_sec |-> t64.sec, tv_nsec |-> t64.ns100 * 100]

MINORBITS == 20

RECURSIVE BitOr(_, _)
BitOr(a, b) ==
    IF a = 0 THEN b
    ELSE IF b = 0 THEN a
    ELSE 2 * BitOr(a \div 2, b \div 2) + (IF a % 2 = 1 \/ b % 2 = 1 THEN 1 ELSE 0)

\* (ma << MINORBITS) | mi on u32: the shift keeps the low 12 bits of ma and
\* clears the low 20 bits, so the OR leaves the low 20 bits of mi as they
\* are and combines the rest of mi with ma
make_dev(ma, mi) ==
    (BitOr(ma % (2^(32 - MINORBITS)), mi \div (2^MINORBITS)) * (2^MINORBITS))
        + (mi % (2^MINORBITS))

\* a u64 below 2^31 (every u64 the model writes is)
U64LE(x) == U32LE(x) \o <<0, 0, 0, 0>>

----------------------------------------------------------------------------
\* lxfs.rs: the LXATTRB record

\* "LXATTRB", "LXXATTR"
LXATTRB == <<76, 88, 65, 84, 84, 82, 66>>
LXXATTR == <<76, 88, 88, 65, 84, 84, 82>>

\* size_of::<EaLxattrbV1>(): 2 x u16, 7 x u32, 3 x u64
LXATTRB_SIZE == 56

\* EaLxattrbV1::new
EaLxattrbV1_new(basic_file_info) ==
    LET zero == [flags |-> 0, version |-> 1, st_mode |-> DEFAULT_MODE,
                 st_uid |-> 0, st_gid |-> 0, st_rdev |-> 0,
                 st_atime_nsec |-> 0, st_mtime_nsec |-> 0, st_ctime_nsec |-> 0,
                 st_atime |-> 0, st_mtime |-> 0, st_ctime |-> 0]
    IN  IF basic_file_info = <<>> THEN zero
        ELSE LET a == u64_to_lxfs_time(basic_file_info[1].LastAccessTime)
                 m == u64_to_lxfs_time(basic_file_info[1].LastWriteTime)
                 c == u64_to_lxfs_time(basic_file_info[1].ChangeTime)
             IN  [zero EXCEPT !.st_atime = a.tv_sec, !.st_atime_nsec = a.tv_nsec,
                              !.st_mtime = m.tv_sec, !.st_mtime_nsec = m.tv_nsec,
                              !.st_ctime = c.tv_sec, !.st_ctime_nsec = c.tv_nsec]

\* the bytes of an EaLxattrbV1 (#[repr(C)], little-endian)
LxattrbBytes(l) ==
    U16LE(l.flags) \o U16LE(l.version) \o U32LE(l.st_mode) \o U32LE(l.st_uid)
    \o U32LE(l.st_gid) \o U32LE(l.st_rdev) \o U32LE(l.st_atime_nsec)
    \o U32LE(l.st_mtime_nsec) \o U32LE(l.st_ctime_nsec)
    \o U64LE(l.st_atime) \o U64LE(l.st_mtime) \o U64LE(l.st_ctime)

\* force_cast::<EaLxattrbV1>: the record read from the first 56 bytes
LxattrbFromBytes(b) ==
    [flags |-> RdU16(b, 0), version |-> RdU16(b, 2), st_mode |-> RdU32(b, 4),
     st_uid |-> RdU32(b, 8), st_gid |-> RdU32(b, 12), st_rdev |-> RdU32(b, 16),
     st_atime_nsec |-> RdU32(b, 20), st_mtime_nsec |-> RdU32(b, 24),
     st_ctime_nsec |-> RdU32(b, 28),
     st_atime |-> RdU32(b, 32), st_mtime |-> RdU32(b, 40), st_ctime |-> RdU32(b, 48)]

----------------------------------------------------------------------------
\* lxfs.rs: the LXXATTR mini-chain

\* size_of::<LxxattrEntryRaw>(): u32, u16, u8, two empty arrays, u8; padded to 8
LXXATTR_ENTRY_SIZE == 8
\* offset_of!(LxxattrEntryRaw, name)
LXXATTR_NAME_OFFSET == 7
\* size_of::<LxxattrRaw>(): 2 x u16 and one LxxattrEntryRaw
LXXATTR_RAW_SIZE == 12

\* LxxattrEntryRaw::size_inner
size_inner(name_len, value_len) == LXXATTR_ENTRY_SIZE + name_len + value_len

LxxattrOutDefault == [buffer |-> <<>>, last_attr_info |-> NoneInfo, count |-> 0]

\* an add that leaves the previous record's next_entry_offset as it is
LxxattrOut_add_no_link(out, name, value) ==
    [buffer |-> (IF out.buffer = <<>> THEN <<0, 0, 1, 0>> ELSE out.buffer)
                \o U32LE(0) \o U16LE(AsU16(Len(value))) \o <<AsU8(Len(name))>>
                \o name \o value \o <<0>>,
     last_attr_info |-> <<Len(out.buffer), size_inner(AsU8(Len(name)), AsU16(Len(value)))>>,
     count |-> out.count + 1]

\* LxxattrOut::add: the header 00 00 01 00 before the first record; the
\* buffer grows by this_size zero bytes, the previous record's
\* next_entry_offset becomes its size, the new record (next_entry_offset 0,
\* value_length, name_length, name, value, the byte resize left) is written
\* at this_pos (the old end of the buffer)
LxxattrOut_add(out, name, value) ==
    LET record == U32LE(0) \o U16LE(AsU16(Len(value))) \o <<AsU8(Len(name))>>
                  \o SubSeq(name, 1, AsU8(Len(name)))
                  \o SubSeq(value, 1, AsU16(Len(value)))
                  \o Zeros(LXXATTR_ENTRY_SIZE - LXXATTR_NAME_OFFSET)
        this_size == size_inner(AsU8(Len(name)), AsU16(Len(value)))
    IN  IF out.last_attr_info # NoneInfo
        THEN [buffer |-> Patch(out.buffer, out.last_attr_info[1],
                               U32LE(out.last_attr_info[2])) \o record,
              last_attr_info |-> <<out.last_attr_info[1] + out.last_attr_info[2], this_size>>,
              count |-> out.count + 1]
        ELSE [buffer |-> (IF out.buffer = <<>> THEN <<0, 0, 1, 0>> ELSE out.buffer) \o record,
              last_attr_info |-> <<4, this_size>>,
              count |-> out.count + 1]

RECURSIVE LxxattrLoop(_, _, _)
\* the loop of parse_lxxattr from ea_ptr on; panic for a failed assert!
LxxattrLoop(buffer, ea_ptr, entries) ==
    IF ea_ptr + LXXATTR_ENTRY_SIZE > Len(buffer) THEN [panic |-> TRUE, entries |-> entries]
    ELSE
        LET next      == RdU32(buffer, ea_ptr)
            value_len == RdU16(buffer, ea_ptr + 4)
            name_len  == Byte(buffer, ea_ptr + 6)
            pea_end   == ea_ptr + size_inner(name_len, value_len)
            e == [name  |-> Slice(buffer, ea_ptr + LXXATTR_NAME_OFFSET, name_len),
                  value |-> Slice(buffer, ea_ptr + LXXATTR_NAME_OFFSET + name_len, value_len)]
        IN  IF pea_end > Len(buffer) THEN [panic |-> TRUE, entries |-> entries]
            ELSE IF next = 0 THEN [panic |-> FALSE, entries |-> Append(entries, e)]
            ELSE LxxattrLoop(buffer, ea_ptr + next, Append(entries, e))

\* parse_lxxattr: the entries, or panic for a failed assert!
parse_lxxattr(buffer) ==
    IF Len(buffer) < LXXATTR_RAW_SIZE THEN [panic |-> TRUE, entries |-> <<>>]
    ELSE IF RdU16(buffer, 0) # 0 \/ RdU16(buffer, 2) # 1 THEN [panic |-> TRUE, entries |-> <<>>]
    ELSE LxxattrLoop(buffer, 4, <<>>)

----------------------------------------------------------------------------
\* wslfs.rs: names, LX.* attributes, reparse tags

\* "$LXUID", "$LXGID", "$LXMOD", "$LXDEV", "LX.", "lxea"
LXUID  == <<36, 76, 88, 85, 73, 68>>
LXGID  == <<36, 76, 88, 71, 73, 68>>
LXMOD  == <<36, 76, 88, 77, 79, 68>>
LXDEV  == <<36, 76, 88, 68, 69, 86>>
LX_DOT == <<76, 88, 46>>
LXEA   == <<108, 120, 101, 97>>

starts_with(s, prefix) ==
    Len(s) >= Len(prefix) /\ SubSeq(s, 1, Len(prefix)) = prefix

\* <[u8]>::to_ascii_lowercase
to_ascii_lowercase(s) ==
    [i \in 1..Len(s) |-> IF s[i] >= 65 /\ s[i] <= 90 THEN s[i] + 32 ELSE s[i]] \o <<>>

\* LxDotAttr::name_ea
name_ea(attr) == attr.name

\* a name() that keeps the letter case of the on-disk name
LxDotAttr_name_keep_case(attr) ==
    SubSeq(name_ea(attr), Len(LX_DOT) + 1, Len(name_ea(attr)))

\* LxDotAttr::name: the on-disk name without "LX.", lower-cased
LxDotAttr_name(attr) ==
    to_ascii_lowercase(SubSeq(name_ea(attr), Len(LX_DOT) + 1, Len(name_ea(attr))))

\* LxDotAttr::value: &value[LXEA.len()..]; the slice panics when the value
\* is shorter than the marker
LxDotAttr_value(attr) ==
    IF Len(attr.value) < Len(LXEA) THEN [panic |-> TRUE, val |-> <<>>]
    ELSE [panic |-> FALSE, val |-> SubSeq(attr.value, Len(LXEA) + 1, Len(attr.value))]

\* the five reparse tags of WSL (wslfs.rs 346-350)
RecognizedTags == {"IO_REPARSE_TAG_LX_SYMLINK", "IO_REPARSE_TAG_AF_UNIX",
                   "IO_REPARSE_TAG_LX_FIFO", "IO_REPARSE_TAG_LX_CHR",
                   "IO_REPARSE_TAG_LX_BLK"}

\* a reparse tag that is none of the five of WSL
OtherTag == "IO_REPARSE_TAG_OTHER"

\* from_tag_id without the arm of IO_REPARSE_TAG_AF_UNIX
from_tag_id_no_socket(tag_id) ==
    CASE tag_id = "IO_REPARSE_TAG_LX_SYMLINK" -> "LNK"
      [] tag_id = "IO_REPARSE_TAG_LX_FIFO"    -> "FIFO"
      [] tag_id = "IO_REPARSE_TAG_LX_CHR"     -> "CHR"
      [] tag_id = "IO_REPARSE_TAG_LX_BLK"     -> "BLK"
      [] OTHER                                -> "UNKNOWN"

\* WslfsReparseTag::from_tag_id
from_tag_id(tag_id) ==
    CASE tag_id = "IO_REPARSE_TAG_LX_SYMLINK" -> "LNK"
      [] tag_id = "IO_REPARSE_TAG_AF_UNIX"    -> "SOCK"
      [] tag_id = "IO_REPARSE_TAG_LX_FIFO"    -> "FIFO"
      [] tag_id = "IO_REPARSE_TAG_LX_CHR"     -> "CHR"
      [] tag_id = "IO_REPARSE_TAG_LX_BLK"     -> "BLK"
      [] OTHER                                -> "UNKNOWN"

\* WslfsReparseTag::tag_id
tag_id_of(t) ==
    CASE t = "LNK"  -> "IO_REPARSE_TAG_LX_SYMLINK"
      [] t = "FIFO" -> "IO_REPARSE_TAG_LX_FIFO"
      [] t = "CHR"  -> "IO_REPARSE_TAG_LX_CHR"
      [] t = "BLK"  -> "IO_REPARSE_TAG_LX_BLK"
      [] t = "SOCK" -> "IO_REPARSE_TAG_AF_UNIX"
      [] OTHER      -> "0"

----------------------------------------------------------------------------
\* Option<T>: None is the empty sequence, Some(x) is <<x>>

None == <<>>
Some(x) == <<x>>

\* Option::unwrap_or
unwrap_or(opt, default) == IF opt = None THEN default ELSE opt[1]

\* a file without reparse point, a WslFile without reparse_tag
NoTag == "none"

----------------------------------------------------------------------------
\* wslfs.rs: WslfsParsed.  The field panic records a failed assert! or
\* unwrap during load.

WslfsDefault ==
    [lxuid |-> None, lxgid |-> None, lxmod |-> None, lxdev |-> None,
     lx_dot_ea |-> <<>>, reparse_tag |-> NoTag, symlink |-> None, panic |-> FALSE]

\* get_ea::<T>() is force_cast, whose assert! fails on a value shorter than T
WslfsLoadEntry(p, ea) ==
    CASE ea.name = LXUID ->
            IF Len(ea.value) < 4 THEN [p EXCEPT !.panic = TRUE]
            ELSE [p EXCEPT !.lxuid = Some([val |-> RdU32(ea.value, 0), owned |-> TRUE])]
      [] ea.name = LXGID ->
            IF Len(ea.value) < 4 THEN [p EXCEPT !.panic = TRUE]
            ELSE [p EXCEPT !.lxgid = Some([val |-> RdU32(ea.value, 0), owned |-> TRUE])]
      [] ea.name = LXMOD ->
            IF Len(ea.value) < 4 THEN [p EXCEPT !.panic = TRUE]
            ELSE [p EXCEPT !.lxmod = Some([val |-> RdU32(ea.value, 0), owned |-> TRUE])]
      [] ea.name = LXDEV ->
            IF Len(ea.value) < 8 THEN [p EXCEPT !.panic = TRUE]
            ELSE [p EXCEPT !.lxdev = Some([major |-> RdU32(ea.value, 0),
                                           minor |-> RdU32(ea.value, 4),
                                           owned |-> TRUE])]
      [] ea.name \notin {LXUID, LXGID, LXMOD, LXDEV} /\ starts_with(ea.name, LX_DOT) ->
            [p EXCEPT !.lx_dot_ea = Append(@, [flags |-> ea.flags, name |-> ea.name,
                                               value |-> ea.value, owned |-> TRUE])]
      [] OTHER -> p

RECURSIVE WslfsLoadEntries(_, _)
\* the loop of WslfsParsed::load over the decoded entries; a panic ends it
WslfsLoadEntries(p, entries) ==
    IF p.panic \/ entries = <<>> THEN p
    ELSE WslfsLoadEntries(WslfsLoadEntry(p, Head(entries)), Tail(entries))

\* WslfsParsed::load.  ea_parsed is the Option of the decoded entries, link
\* the Option that read_lx_symlink(..).ok() gives
WslfsParsed_load(file, ea_parsed, link) ==
    LET p0 == [WslfsDefault EXCEPT
                 !.reparse_tag = IF file.reparse_tag = NoTag THEN NoTag
                                 ELSE from_tag_id(file.reparse_tag),
                 !.symlink = IF file.reparse_tag = "IO_REPARSE_TAG_LX_SYMLINK"
                             THEN link ELSE None]
    IN  IF ea_parsed = None THEN p0 ELSE WslfsLoadEntries(p0, ea_parsed[1])

\* a maybe() that ignores the LX.* attributes
Wslfs_maybe_scalars_only(p) ==
    \/ p.lxuid # None
    \/ p.lxgid # None
    \/ p.lxmod # None
    \/ p.lxdev # None
    \/ p.reparse_tag # NoTag

\* WslfsParsed::maybe
Wslfs_maybe(p) ==
    \/ p.lxuid # None
    \/ p.lxgid # None
    \/ p.lxmod # None
    \/ p.lxdev # None
    \/ p.reparse_tag # NoTag
    \/ p.lx_dot_ea # <<>>

Wslfs_get_uid(p)  == IF p.lxuid = None THEN None ELSE Some(p.lxuid[1].val)
Wslfs_get_gid(p)  == IF p.lxgid = None THEN None ELSE Some(p.lxgid[1].val)
Wslfs_get_mode(p) == IF p.lxmod = None THEN None ELSE Some(p.lxmod[1].val)
Wslfs_get_dev_major(p) == IF p.lxdev = None THEN None ELSE Some(p.lxdev[1].major)
Wslfs_get_dev_minor(p) == IF p.lxdev = None THEN None ELSE Some(p.lxdev[1].minor)

----------------------------------------------------------------------------
\* lxfs.rs: LxfsParsed

MAX_PATH == 260

\* ntfs_io::read_data: a MAX_PATH buffer that ReadFile fills from the start
\* and that is returned whole
read_data(content) ==
    [i \in 1..MAX_PATH |-> IF i <= Len(content) THEN content[i] ELSE 0] \o <<>>

LxfsDefault ==
    [lxattrb |-> None, lxxattr |-> None, symlink |-> None, basic_file_info |-> None,
     panic |-> FALSE]

\* dev_major, dev_minor: dev >> MINORBITS and dev & MINORMASK
dev_major(dev) == dev \div (2^MINORBITS)
dev_minor(dev) == dev % (2^MINORBITS)

\* get_uid that gives a zero instead of no value when there is no record
Lxfs_get_uid_zeroed(p) == IF p.lxattrb = None THEN Some(0) ELSE Some(p.lxattrb[1].rec.st_uid)

\* LxfsParsed::get_uid .. get_dev_minor: self.lxattrb.as_ref().map(..)
Lxfs_get_uid(p)  == IF p.lxattrb = None THEN None ELSE Some(p.lxattrb[1].rec.st_uid)
Lxfs_get_gid(p)  == IF p.lxattrb = None THEN None ELSE Some(p.lxattrb[1].rec.st_gid)
Lxfs_get_mode(p) == IF p.lxattrb = None THEN None ELSE Some(p.lxattrb[1].rec.st_mode)
Lxfs_get_dev_major(p) ==
    IF p.lxattrb = None THEN None ELSE Some(dev_major(p.lxattrb[1].rec.st_rdev))
Lxfs_get_dev_minor(p) ==
    IF p.lxattrb = None THEN None ELSE Some(dev_minor(p.lxattrb[1].rec.st_rdev))

\* one turn of the loop of LxfsParsed::load; data is the Option of the bytes
\* read_data returns (None when ReadFile fails, which the unwrap turns into
\* a panic)
LxfsLoadEntry(p, ea, data) ==
    CASE ea.name = LXATTRB ->
            IF Len(ea.value) < LXATTRB_SIZE THEN [p EXCEPT !.panic = TRUE]
            ELSE IF ~IsLnkMode(LxattrbFromBytes(ea.value).st_mode)
            THEN [p EXCEPT !.lxattrb =
                     Some([rec |-> LxattrbFromBytes(ea.value), owned |-> FALSE])]
            ELSE [p EXCEPT !.lxattrb =
                     Some([rec |-> LxattrbFromBytes(ea.value), owned |-> FALSE]),
                           !.symlink = data,
                           !.panic = (data = None)]
      [] ea.name = LXXATTR ->
            IF parse_lxxattr(ea.value).panic THEN [p EXCEPT !.panic = TRUE]
            ELSE [p EXCEPT !.lxxattr = Some(
                    [i \in 1..Len(parse_lxxattr(ea.value).entries) |->
                        [name  |-> parse_lxxattr(ea.value).entries[i].name,
                         value |-> Some(parse_lxxattr(ea.value).entries[i].value),
                         owned |-> FALSE]] \o <<>>)]
      [] OTHER -> p

RECURSIVE LxfsLoadEntries(_, _, _)
\* the loop of LxfsParsed::load over the decoded entries; a panic ends it
LxfsLoadEntries(p, entries, data) ==
    IF p.panic \/ entries = <<>> THEN p
    ELSE LxfsLoadEntries(LxfsLoadEntry(p, Head(entries), data), Tail(entries), data)

\* LxfsParsed::load
LxfsParsed_load(file, ea_parsed, data) ==
    LET p0 == [LxfsDefault EXCEPT !.basic_file_info = file.basic_file_info]
    IN  IF ea_parsed = None THEN p0 ELSE LxfsLoadEntries(p0, ea_parsed[1], data)

\* a maybe() that looks at the fixed record only
Lxfs_maybe_lxattrb_only(p) == p.lxattrb # None

\* a maybe() that looks at the named attributes only
Lxfs_maybe_lxxattr_only(p) == p.lxxattr # None

\* LxfsParsed::maybe
Lxfs_maybe(p) ==
    \/ p.lxattrb # None
    \/ p.lxxattr # None

----------------------------------------------------------------------------
\* The OS side of the EA calls (NtQueryEaFile / NtSetEaFile)

to_ascii_uppercase(s) ==
    [i \in 1..Len(s) |-> IF s[i] >= 97 /\ s[i] <= 122 THEN s[i] - 32 ELSE s[i]] \o <<>>

HasName(eas, name) == \E i \in 1..Len(eas) : eas[i].name = name

\* the offsets of the records of a chain, following NextEntryOffset from ptr
RECURSIVE OsOffsets(_, _)
OsOffsets(buf, ptr) ==
    IF RdU32(buf, ptr) = 0 \/ ptr + RdU32(buf, ptr) + EA_NAME_OFFSET > Len(buf)
    THEN <<ptr>>
    ELSE <<ptr>> \o OsOffsets(buf, ptr + RdU32(buf, ptr))

\* the entries NtSetEaFile finds in a chain; NTFS keeps EA names in upper case
OsEntries(buf) ==
    [i \in 1..Len(OsOffsets(buf, 0)) |->
        LET e == EntryAt(buf, OsOffsets(buf, 0)[i])
        IN  [flags |-> e.flags, name |-> to_ascii_uppercase(e.name), value |-> e.value]]
    \o <<>>

\* the entry of a chain that decides about a name: the last one of that name
Deciding(es, name) ==
    es[CHOOSE i \in 1..Len(es) :
          es[i].name = name /\ \A j \in (i + 1)..Len(es) : es[j].name # name]

\* the k-th smallest element of a set of numbers, k from 1
Kth(S, k) == CHOOSE i \in S : Cardinality({j \in S : j < i}) = k - 1

\* the file's EAs after NtSetEaFile(buf), issued by ntfs_io::write_ea: for
\* every name in the chain an empty value removes the file's EA of that
\* name, another value replaces it or, if the file has none, adds it at the
\* end; EAs whose names are not in the chain stay as they are
OsSetEaFile(eas, buf) ==
    LET es      == OsEntries(buf)
        updated == [i \in 1..Len(eas) |->
                       IF HasName(es, eas[i].name) THEN Deciding(es, eas[i].name) ELSE eas[i]]
                   \o <<>>
        added_at == {i \in 1..Len(es) :
                        /\ ~HasName(eas, es[i].name)
                        /\ es[i].value # <<>>
                        /\ \A j \in (i + 1)..Len(es) : es[j].name # es[i].name}
    IN  SelectSeq(updated, LAMBDA e : e.value # <<>>)
        \o [k \in 1..Cardinality(added_at) |-> es[Kth(added_at, k)]]

\* a record of the chain NtQueryEaFile returns
OsRecord(e, last) ==
    U32LE(IF last THEN 0 ELSE EntrySize(e)) \o <<e.flags, Len(e.name)>>
    \o U16LE(Len(e.value)) \o e.name \o <<0>> \o e.value
    \o Zeros(EntrySize(e) - (EA_BASE_SIZE_RAW + Len(e.name) + Len(e.value)))

\* the records of eas[lo..hi], back to back
RECURSIVE OsChain(_, _, _)
OsChain(eas, lo, hi) ==
    IF lo = hi THEN OsRecord(eas[lo], lo = Len(eas))
    ELSE OsChain(eas, lo, (lo + hi) \div 2) \o OsChain(eas, (lo + hi) \div 2 + 1, hi)

\* ntfs_io::read_ea_all: None when the file has no EA (EaSize == 0), else
\* the chain as NtQueryEaFile lays it out
read_ea_all(eas) == IF eas = <<>> THEN None ELSE Some(OsChain(eas, 1, Len(eas)))

----------------------------------------------------------------------------
\* lxfs.rs / wslfs.rs: the setters and save of the two codecs
\* (trait WslFileAttributes)

\* LxfsParsed::lxattrb_mut: the record, made from the file's basic times if
\* there is none, and owned from now on (Cow::to_mut)
lxattrb_mut(p) ==
    IF p.lxattrb = None
    THEN [p EXCEPT !.lxattrb = Some([rec |-> EaLxattrbV1_new(p.basic_file_info),
                                     owned |-> TRUE])]
    ELSE [p EXCEPT !.lxattrb = Some([rec |-> p.lxattrb[1].rec, owned |-> TRUE])]

\* a set_uid that needs an existing record
Lxfs_set_uid_if_present(p, uid) ==
    IF p.lxattrb = None THEN p
    ELSE [p EXCEPT !.lxattrb = Some([rec |-> [p.lxattrb[1].rec EXCEPT !.st_uid = uid],
                                     owned |-> TRUE])]

\* LxfsParsed::set_uid, set_gid, set_mode
Lxfs_set_uid(p, uid) ==
    [p EXCEPT !.lxattrb = Some([lxattrb_mut(p).lxattrb[1] EXCEPT !.rec.st_uid = uid])]
Lxfs_set_gid(p, gid) ==
    [p EXCEPT !.lxattrb = Some([lxattrb_mut(p).lxattrb[1] EXCEPT !.rec.st_gid = gid])]
Lxfs_set_mode(p, mode) ==
    [p EXCEPT !.lxattrb = Some([lxattrb_mut(p).lxattrb[1] EXCEPT !.rec.st_mode = mode])]

\* a set_dev_major that packs the new major with minor 0
Lxfs_set_dev_major_drop_minor(p, ma) ==
    [p EXCEPT !.lxattrb = Some([lxattrb_mut(p).lxattrb[1] EXCEPT
                                   !.rec.st_rdev = make_dev(ma, 0)])]

\* LxfsParsed::set_dev_major: st_rdev = make_dev(ma, dev_minor(st_rdev))
Lxfs_set_dev_major(p, ma) ==
    [p EXCEPT !.lxattrb = Some([lxattrb_mut(p).lxattrb[1] EXCEPT
                                   !.rec.st_rdev = make_dev(ma, dev_minor(@))])]

\* LxfsParsed::set_dev_minor: st_rdev = make_dev(dev_major(st_rdev), mi)
Lxfs_set_dev_minor(p, mi) ==
    [p EXCEPT !.lxattrb = Some([lxattrb_mut(p).lxattrb[1] EXCEPT
                                   !.rec.st_rdev = make_dev(dev_major(@), mi)])]

\* iter_mut().filter(..).next(): the position of the first entry of a list
\* for which the filter holds (hits[i] for entry i), 0 if there is none
FirstAt(hits) ==
    IF \E i \in 1..Len(hits) : hits[i]
    THEN CHOOSE i \in 1..Len(hits) : hits[i] /\ \A j \in 1..(i - 1) : ~hits[j]
    ELSE 0

\* LxfsParsed::set_attr: the first entry of that name gets the value, or a
\* new entry is pushed
Lxfs_set_attr(p, name, value) ==
    LET list == unwrap_or(p.lxxattr, <<>>)
        at   == FirstAt([i \in 1..Len(list) |-> list[i].name = name])
    IN  [p EXCEPT !.lxxattr =
            Some(IF at # 0
                 THEN [list EXCEPT ![at] = [name |-> list[at].name, value |-> Some(value),
                                            owned |-> TRUE]]
                 ELSE Append(list, [name |-> name, value |-> Some(value), owned |-> TRUE]))]

\* an rm_attr that drops the entries of that name from the list at once
Lxfs_rm_attr_now(p, name) ==
    [p EXCEPT !.lxxattr =
        Some(SelectSeq(unwrap_or(p.lxxattr, <<>>), LAMBDA x : x.name # name))]

\* LxfsParsed::rm_attr: the first entry of that name gets the value None
Lxfs_rm_attr(p, name) ==
    LET list == unwrap_or(p.lxxattr, <<>>)
        at   == FirstAt([i \in 1..Len(list) |-> list[i].name = name])
    IN  [p EXCEPT !.lxxattr =
            Some(IF at # 0
                 THEN [list EXCEPT ![at] = [name |-> list[at].name, value |-> None,
                                            owned |-> TRUE]]
                 ELSE list)]

RECURSIVE LxxattrFromAttrs(_, _)
\* lxxattr_out.add(name, value) for the entries of a list that out does not
\* hold yet
LxxattrFromAttrs(out, attrs) ==
    IF out.count >= Len(attrs) THEN out
    ELSE LxxattrFromAttrs(
            LxxattrOut_add(out, attrs[out.count + 1].name, attrs[out.count + 1].value[1]),
            attrs)

\* LxfsParsed::save: the buffer passed to write_ea and the codec afterwards.
\* ea_out gets LXATTRB if the record is owned, and LXXATTR if self.lxxattr
\* is Some, built from the entries that have a value; the entries without
\* a value are dropped from self.lxxattr.
Lxfs_save(p) ==
    [buf |-> AddAll(
                (IF p.lxattrb # None /\ p.lxattrb[1].owned
                 THEN <<[flags |-> 0, name |-> LXATTRB,
                         value |-> LxattrbBytes(p.lxattrb[1].rec)]>>
                 ELSE <<>>)
                \o (IF p.lxxattr # None
                    THEN <<[flags |-> 0, name |-> LXXATTR,
                            value |-> LxxattrFromAttrs(LxxattrOutDefault,
                                         SelectSeq(p.lxxattr[1],
                                                   LAMBDA x : x.value # None)).buffer]>>
                    ELSE <<>>)).buff,
     p   |-> IF p.lxxattr = None THEN p
             ELSE [p EXCEPT !.lxxattr =
                      Some(SelectSeq(p.lxxattr[1], LAMBDA x : x.value # None))]]

\* WslfsParsed::set_uid, set_gid, set_mode
Wslfs_set_uid(p, uid)   == [p EXCEPT !.lxuid = Some([val |-> uid, owned |-> TRUE])]
Wslfs_set_gid(p, gid)   == [p EXCEPT !.lxgid = Some([val |-> gid, owned |-> TRUE])]
Wslfs_set_mode(p, mode) == [p EXCEPT !.lxmod = Some([val |-> mode, owned |-> TRUE])]

\* WslfsParsed::set_dev_major, set_dev_minor: the field of
\* self.lxdev.take().unwrap_or_default()
Wslfs_set_dev_major(p, ma) ==
    [p EXCEPT !.lxdev = Some([major |-> ma,
                              minor |-> unwrap_or(p.lxdev, [major |-> 0, minor |-> 0]).minor,
                              owned |-> TRUE])]
Wslfs_set_dev_minor(p, mi) ==
    [p EXCEPT !.lxdev = Some([major |-> unwrap_or(p.lxdev, [major |-> 0, minor |-> 0]).major,
                              minor |-> mi,
                              owned |-> TRUE])]

\* WslfsParsed::set_attr: the first entry whose name_display() (name() as a
\* string) is name gets the value make_value(value), or
\* LxDotAttrCow::new_owned(name, value) is pushed
Wslfs_set_attr(p, name, value) ==
    LET at == FirstAt([i \in 1..Len(p.lx_dot_ea) |-> LxDotAttr_name(p.lx_dot_ea[i]) = name])
    IN  [p EXCEPT !.lx_dot_ea =
            IF at # 0
            THEN [@ EXCEPT ![at] = [flags |-> @.flags, name |-> @.name,
                                    value |-> LXEA \o value, owned |-> TRUE]]
            ELSE Append(@, [flags |-> 0, name |-> LX_DOT \o name,
                            value |-> LXEA \o value, owned |-> TRUE])]

\* WslfsParsed::rm_attr: set_value_to_rm on the first entry whose
\* name_display() is name
Wslfs_rm_attr(p, name) ==
    LET at == FirstAt([i \in 1..Len(p.lx_dot_ea) |-> LxDotAttr_name(p.lx_dot_ea[i]) = name])
    IN  [p EXCEPT !.lx_dot_ea =
            IF at # 0
            THEN [@ EXCEPT ![at] = [flags |-> @.flags, name |-> @.name,
                                    value |-> <<>>, owned |-> TRUE]]
            ELSE @]

\* one scalar of WslfsParsed::save: added if it is Some(Cow::Owned(_))
WslfsScalarEntry(field, name, bytes) ==
    IF field # None /\ field[1].owned
    THEN <<[flags |-> 0, name |-> name, value |-> bytes]>>
    ELSE <<>>

\* the entries WslfsParsed::save puts into ea_out: the owned scalars, then
\* every LX.* entry whose value is owned
Wslfs_save_chain(p) ==
    WslfsScalarEntry(p.lxuid, LXUID, U32LE(unwrap_or(p.lxuid, [val |-> 0]).val))
    \o WslfsScalarEntry(p.lxgid, LXGID, U32LE(unwrap_or(p.lxgid, [val |-> 0]).val))
    \o WslfsScalarEntry(p.lxmod, LXMOD, U32LE(unwrap_or(p.lxmod, [val |-> 0]).val))
    \o WslfsScalarEntry(p.lxdev, LXDEV,
                        U32LE(unwrap_or(p.lxdev, [major |-> 0, minor |-> 0]).major)
                        \o U32LE(unwrap_or(p.lxdev, [major |-> 0, minor |-> 0]).minor))
    \o [i \in 1..Len(SelectSeq(p.lx_dot_ea, LAMBDA x : x.owned)) |->
          [flags |-> SelectSeq(p.lx_dot_ea, LAMBDA x : x.owned)[i].flags,
           name  |-> SelectSeq(p.lx_dot_ea, LAMBDA x : x.owned)[i].name,
           value |-> SelectSeq(p.lx_dot_ea, LAMBDA x : x.owned)[i].value]]

\* WslfsParsed::save: the buffer passed to write_ea and the codec afterwards
\* (owned LX.* entries with an empty value are dropped from self.lx_dot_ea)
Wslfs_save(p) ==
    [buf |-> AddAll(Wslfs_save_chain(p)).buff,
     p   |-> [p EXCEPT !.lx_dot_ea =
                 SelectSeq(@, LAMBDA x : ~x.owned \/ x.value # <<>>)]]

----------------------------------------------------------------------------
\* main.rs: downgrade

RECURSIVE LxxattrFromDots(_, _)
\* the loop `for dot_ea in &wslfs.lx_dot_ea { lxxattr_out.add(name(), value()) }`
\* from the entry that out does not hold yet; panic when value() panics
LxxattrFromDots(out, dots) ==
    IF out.count >= Len(dots) THEN [panic |-> FALSE, out |-> out]
    ELSE IF LxDotAttr_value(dots[out.count + 1]).panic THEN [panic |-> TRUE, out |-> out]
    ELSE LxxattrFromDots(
            LxxattrOut_add(out, LxDotAttr_name(dots[out.count + 1]),
                           LxDotAttr_value(dots[out.count + 1]).val),
            dots)

\* a removal list without the LX.* names
ea_to_remove_scalars_only(p) == <<LXUID, LXGID, LXMOD, LXDEV>>

\* ea_to_remove: the four scalar names, then name_ea() of every LX.* entry
ea_to_remove(p) ==
    <<LXUID, LXGID, LXMOD, LXDEV>>
    \o [i \in 1..Len(p.lx_dot_ea) |-> name_ea(p.lx_dot_ea[i])]

\* a record whose owner and group are left as new() made them
downgrade_lxattrb_no_owner(file, p) ==
    [EaLxattrbV1_new(file.basic_file_info) EXCEPT
        !.st_mode = unwrap_or(Wslfs_get_mode(p), 0),
        !.st_rdev = make_dev(unwrap_or(Wslfs_get_dev_major(p), 0),
                             unwrap_or(Wslfs_get_dev_minor(p), 0))]

\* the EaLxattrbV1 that downgrade builds (main.rs 555-563)
downgrade_lxattrb(file, p) ==
    [EaLxattrbV1_new(file.basic_file_info) EXCEPT
        !.st_uid  = unwrap_or(Wslfs_get_uid(p), 0),
        !.st_gid  = unwrap_or(Wslfs_get_gid(p), 0),
        !.st_mode = unwrap_or(Wslfs_get_mode(p), 0),
        !.st_rdev = make_dev(unwrap_or(Wslfs_get_dev_major(p), 0),
                             unwrap_or(Wslfs_get_dev_minor(p), 0))]

\* the ea_out that downgrade builds for write_ea (main.rs 545-584):
\* ea_out.add(LXATTRB, lxattrb_bytes), ea_out.add(LXXATTR, lxxattr_out.buffer)
\* and ea_out.add(ea, "") for every ea of ea_to_remove; panic when value()
\* of an LX.* entry panics
downgrade_chain(file, p) ==
    LET lxx == LxxattrFromDots(LxxattrOutDefault, p.lx_dot_ea)
    IN  IF lxx.panic THEN [panic |-> TRUE, out |-> EaOutDefault]
        ELSE [panic |-> FALSE,
              out   |-> AddAll(
                  << [flags |-> 0, name |-> LXATTRB,
                      value |-> LxattrbBytes(downgrade_lxattrb(file, p))],
                     [flags |-> 0, name |-> LXXATTR, value |-> lxx.out.buffer] >>
                  \o [i \in 1..Len(ea_to_remove(p)) |->
                        [flags |-> 0, name |-> ea_to_remove(p)[i], value |-> <<>>]])]

----------------------------------------------------------------------------
\* The EA codec driven on bounded inputs: entries are encoded with EaOut,
\* the buffer is handed to parse_ea as it is, cut short, or with one header
\* byte overwritten (a buffer comes from the OS and may hold anything), and
\* the decoded entries are encoded and decoded again (test_ea_write).

NameOf(n)  == [i \in 1..n |-> 64 + i] \o <<>>          \* "A", "AB", ...
ValueOf(n) == [i \in 1..n |-> 16 * n + i] \o <<>>

EntrySet == { [flags |-> 0, name |-> NameOf(n), value |-> ValueOf(v)] :
                n \in 1..MaxNameLen, v \in 0..MaxValueLen }

RECURSIVE SeqsUpTo(_, _)
SeqsUpTo(S, n) ==
    IF n = 0 THEN { <<>> }
    ELSE LET shorter == SeqsUpTo(S, n - 1)
         IN  shorter \cup { Append(q, x) : q \in { r \in shorter : Len(r) = n - 1 }, x \in S }

\* bytes written over a header byte: terminator, small offsets and lengths,
\* FILE_NEED_EA / a top bit, the largest byte
CorruptBytes == {0, 4, 13, 128, 255}

NoFile == [ea |-> <<>>, tag |-> NoTag, link |-> <<>>, content |-> <<>>]

WslFileDefault ==
    [file_handle |-> "invalid", writable |-> FALSE, reparse_tag |-> NoTag,
     basic_file_info |-> None]

\* no change command has chosen a codec: use is the codec open_to_change
\* picked, fs_type the --fs_type argument and distro the distro
\* try_load_distro found, calls the setter calls of the closure so far,
\* lxfs0 and wslfs0 the two codecs as loaded
ChgIdle ==
    [use |-> "none", fs_type |-> None, distro |-> None, calls |-> <<>>,
     lxfs0 |-> LxfsDefault, wslfs0 |-> WslfsDefault]

\* no reparse point is being read or built; built is the place in SetTargets
\* of the target set_wslfs_reparse_point was given
RpIdle ==
    [pc |-> "idle", raw |-> <<>>, built |-> None, queries |-> <<>>, first |-> <<>>,
     buf |-> <<>>, res |-> "none", link |-> None]

\* no file time is being converted; lt is the LxfsTime given, ft the
\* FILETIME made of it, back the LxfsTime made of ft
TmIdle ==
    [pc |-> "idle", lt |-> [tv_sec |-> <<0, 0, 0, 0>>, tv_nsec |-> <<0, 0>>],
     ft |-> [dwLowDateTime |-> <<0, 0>>, dwHighDateTime |-> <<0, 0>>],
     back |-> [tv_sec |-> <<0, 0, 0, 0>>, tv_nsec |-> <<0, 0>>], res |-> "none"]

MigIdle ==
    /\ disk = NoFile
    /\ orig = NoFile
    /\ wsl_file = WslFileDefault
    /\ ea_buffer = None
    /\ wslfs = WslfsDefault
    /\ lxfs = LxfsDefault
    /\ pc = "idle"
    /\ oplog = <<>>
    /\ outcome = "none"
    /\ run = 0
    /\ chg = ChgIdle
    /\ rp = RpIdle
    /\ tm = TmIdle

InitEa ==
    /\ input \in SeqsUpTo(EntrySet, MaxEntries)
    /\ added = <<>>
    /\ ea_out = EaOutDefault
    /\ starts = <<>>
    /\ phase = "encode"
    /\ pbuf = <<>>
    /\ truncated = FALSE
    /\ corrupted = FALSE
    /\ parsed = NotParsed
    /\ reparsed = NotParsed
    /\ MigIdle

\* ea_out.add_entry(&entry) for the next entry
AddEntry ==
    /\ phase = "encode"
    /\ input # <<>>
    /\ ea_out' = add_entry(ea_out, Head(input))
    /\ starts' = Append(starts, ThisIndex(ea_out))
    /\ added' = Append(added, Head(input))
    /\ input' = Tail(input)
    /\ UNCHANGED <<phase, pbuf, truncated, corrupted, parsed, reparsed>>
    /\ UNCHANGED mig_vars

\* the encoder's buffer becomes the buffer to decode
TakeBuffer ==
    /\ phase = "encode"
    /\ input = <<>>
    /\ phase' = "buffer"
    /\ pbuf' = ea_out.buff
    /\ UNCHANGED <<input, added, ea_out, starts, truncated, corrupted, parsed, reparsed>>
    /\ UNCHANGED mig_vars

\* the buffer is cut to a shorter length
Truncate ==
    /\ phase = "buffer"
    /\ ~truncated /\ ~corrupted
    /\ \E n \in 0..(Len(pbuf) - 1) :
        pbuf' = SubSeq(pbuf, 1, n)
    /\ truncated' = TRUE
    /\ UNCHANGED <<input, added, ea_out, starts, phase, corrupted, parsed, reparsed>>
    /\ UNCHANGED mig_vars

\* one byte of one record's header (NextEntryOffset, Flags, EaNameLength,
\* EaValueLength) is overwritten
Corrupt ==
    /\ phase = "buffer"
    /\ ~truncated /\ ~corrupted
    /\ \E i \in 1..Len(starts), k \in 0..(EA_NAME_OFFSET - 1), b \in CorruptBytes :
        /\ Byte(pbuf, starts[i] + k) # b
        /\ pbuf' = Patch(pbuf, starts[i] + k, <<b>>)
    /\ corrupted' = TRUE
    /\ UNCHANGED <<input, added, ea_out, starts, phase, truncated, parsed, reparsed>>
    /\ UNCHANGED mig_vars

\* ea_parse::parse_ea(&ea_buffer)
ParseEa ==
    /\ phase = "buffer"
    /\ phase' = "parsed"
    /\ parsed' = parse_ea(pbuf)
    /\ UNCHANGED <<input, added, ea_out, starts, pbuf, truncated, corrupted, reparsed>>
    /\ UNCHANGED mig_vars

\* test_ea_write: the decoded entries are encoded again with a fresh EaOut;
\* the new buffer is decoded in turn
Reencode ==
    /\ phase = "parsed"
    /\ parsed.status = "ok"
    /\ phase' = "reencoded"
    /\ ea_out' = AddAll(parsed.entries)
    /\ reparsed' = parse_ea(AddAll(parsed.entries).buff)
    /\ UNCHANGED <<input, added, starts, pbuf, truncated, corrupted, parsed>>
    /\ UNCHANGED mig_vars

NextEa == AddEntry \/ TakeBuffer \/ Truncate \/ Corrupt \/ ParseEa \/ Reencode

SpecEa == InitEa /\ [][NextEa]_vars

----------------------------------------------------------------------------
\* One file under downgrade_path / downgrade (main.rs 523-606).  Every OS
\* call is a step of its own and may fail; a run that finished may be
\* followed by another run on the same file.

Ea(name, value) == [flags |-> 0, name |-> name, value |-> value]

\* "LX.USER.TEST", "LX.B", "hello"
LX_USER_TEST == <<76, 88, 46, 85, 83, 69, 82, 46, 84, 69, 83, 84>>
LX_B         == <<76, 88, 46, 66>>
Hello        == <<104, 101, 108, 108, 111>>

\* the file's basic times (FILE_BASIC_INFORMATION)
FileTimes ==
    [CreationTime   |-> [sec |-> 1000, ns100 |-> 11],
     LastAccessTime |-> [sec |-> 2000, ns100 |-> 22],
     LastWriteTime  |-> [sec |-> 3000, ns100 |-> 33],
     ChangeTime     |-> [sec |-> 4000, ns100 |-> 44]]

\* an LXATTRB value as lxfs writes it
LxattrbValue(mode) ==
    LxattrbBytes([EaLxattrbV1_new(Some(FileTimes)) EXCEPT
                    !.st_mode = mode, !.st_uid = 7, !.st_gid = 8])

\* an LXXATTR value holding the one attribute "u" = "v"
LxxattrValue == LxxattrOut_add(LxxattrOutDefault, <<117>>, <<118>>).buffer

\* the EA entries a file may carry, slot by slot, in on-disk order: owner
\* and group (or an owner cut short), mode and device, LX.* attributes (or
\* one whose value is shorter than the marker or lacks it), the Compact scheme's two
EaMenu ==
    << { <<>>,
         <<Ea(LXUID, U32LE(1000)), Ea(LXGID, U32LE(100))>>,
         <<Ea(LXUID, <<1, 2>>)>> },
       { <<>>,
         <<Ea(LXMOD, U32LE(33261))>>,                             \* 0o100755
         <<Ea(LXMOD, U32LE(8630)), Ea(LXDEV, U32LE(37) \o U32LE(13))>> },  \* 0o20666
       { <<>>,
         <<Ea(LX_USER_TEST, LXEA \o Hello)>>,
         <<Ea(LX_USER_TEST, LXEA \o Hello), Ea(LX_B, LXEA)>>,
         <<Ea(LX_B, <<1, 2>>)>>,
         <<Ea(LX_B, Hello)>> },                                   \* no marker
       { <<>>,
         <<Ea(LXATTRB, LxattrbValue(33188))>>,                    \* 0o100644
         <<Ea(LXATTRB, LxattrbValue(41471))>>,                    \* 0o120777
         <<Ea(LXXATTR, LxxattrValue)>>,
         <<Ea(LXATTRB, LxattrbValue(33188)), Ea(LXXATTR, LxxattrValue)>> } >>

RECURSIVE EaSets(_)
\* every choice of one alternative per slot of the first n slots
EaSets(n) ==
    IF n = 0 THEN { <<>> }
    ELSE { prefix \o pick : prefix \in EaSets(n - 1), pick \in EaMenu[n] }

\* the reparse state of the file: none, one of the five tags of WSL, a
\* foreign tag that no driver handles (NtOpenFile then fails with
\* STATUS_IO_REPARSE_TAG_NOT_HANDLED and the file is opened as a reparse
\* point, wsl_file.rs 176-190)
FileTags == {NoTag, OtherTag} \cup RecognizedTags

\* "/x", "/t"
LinkTarget  == <<47, 120>>
LinkContent == <<47, 116>>

InitMig ==
    /\ \E eas \in EaSets(Len(EaMenu)), tag \in FileTags :
        disk = [ea      |-> eas,
                tag     |-> tag,
                link    |-> IF tag = "IO_REPARSE_TAG_LX_SYMLINK" THEN LinkTarget ELSE <<>>,
                content |-> IF \E i \in 1..Len(eas) :
                                 eas[i].name = LXATTRB /\ IsLnkMode(RdU32(eas[i].value, 4))
                            THEN LinkContent ELSE <<>>]
    /\ orig = disk
    /\ wsl_file = WslFileDefault
    /\ ea_buffer = None
    /\ wslfs = WslfsDefault
    /\ lxfs = LxfsDefault
    /\ pc = "idle"
    /\ oplog = <<>>
    /\ outcome = "none"
    /\ run = 0
    /\ chg = ChgIdle
    /\ rp = RpIdle
    /\ tm = TmIdle
    /\ input = <<>>
    /\ added = <<>>
    /\ ea_out = EaOutDefault
    /\ starts = <<>>
    /\ phase = "encode"
    /\ pbuf = <<>>
    /\ truncated = FALSE
    /\ corrupted = FALSE
    /\ parsed = NotParsed
    /\ reparsed = NotParsed

\* an OS call on the handle that needs write access
CanWrite(file) == file.file_handle = "rw"

\* downgrade_path: open_handle(path, false) and read_ea().unwrap_or(None).
\* The file is opened read-only; a failed open returns Err.  open_ok,
\* info_ok, ea_ok are the results of NtOpenFile (and the tag query), the
\* basic-information query and the EA query.
DowngradeOpen ==
    /\ pc \in {"idle", "done"}
    /\ run < MaxRuns
    /\ run' = run + 1
    /\ orig' = disk
    /\ oplog' = <<>>
    /\ ea_out' = EaOutDefault
    /\ wslfs' = WslfsDefault
    /\ lxfs' = LxfsDefault
    /\ UNCHANGED disk
    /\ \E open_ok, info_ok, ea_ok \in BOOLEAN :
        IF ~open_ok
        THEN /\ wsl_file' = WslFileDefault
             /\ ea_buffer' = None
             /\ outcome' = "open failed"
             /\ pc' = "done"
        ELSE /\ wsl_file' = [file_handle |-> "ro", writable |-> FALSE,
                             reparse_tag |-> disk.tag,
                             basic_file_info |-> IF info_ok THEN Some(FileTimes) ELSE None]
             /\ ea_buffer' = IF ea_ok THEN read_ea_all(disk.ea) ELSE None
             /\ outcome' = "none"
             /\ pc' = "opened"
    /\ UNCHANGED ea_rest

\* downgrade_path: parse_ea, WslfsParsed::load, LxfsParsed::load.  A failed
\* assert! or unwrap ends the run with a panic.  link_ok and data_ok are the
\* results of the reparse-point query and of ReadFile.
DowngradeLoad ==
    /\ pc = "opened"
    /\ \E link_ok, data_ok \in BOOLEAN :
        LET decoded   == IF ea_buffer = None THEN NotParsed ELSE parse_ea(ea_buffer[1])
            ea_parsed == IF ea_buffer = None THEN None ELSE Some(Fnv(decoded.entries))
            w == WslfsParsed_load(wsl_file, ea_parsed,
                                  IF link_ok THEN Some(disk.link) ELSE None)
            l == LxfsParsed_load(wsl_file, ea_parsed,
                                 IF data_ok THEN Some(read_data(disk.content)) ELSE None)
        IN  /\ wslfs' = w
            /\ lxfs' = l
            /\ IF decoded.status = "panic" \/ w.panic \/ l.panic
               THEN outcome' = "panic" /\ pc' = "done"
               ELSE outcome' = "none" /\ pc' = "loaded"
    /\ UNCHANGED <<disk, orig, wsl_file, ea_buffer, oplog, run, ea_out>>
    /\ UNCHANGED ea_rest

\* an entry of the log of OS calls
Op(op, arg, ok) == [op |-> op, arg |-> arg, ok |-> ok]

\* downgrade up to and including reopen_to_write (main.rs 541-586): the
\* lxfs check, the construction of ea_out, then close and reopen with write
\* access, whose result is ignored
DowngradeStart ==
    /\ pc = "loaded"
    /\ UNCHANGED <<disk, orig, ea_buffer, wslfs, lxfs, run>>
    /\ IF Lxfs_maybe(lxfs)
       THEN /\ outcome' = "maybe lxfs already"
            /\ pc' = "done"
            /\ UNCHANGED <<wsl_file, oplog, ea_out>>
       ELSE IF downgrade_chain(wsl_file, wslfs).panic
       THEN /\ outcome' = "panic"
            /\ pc' = "done"
            /\ UNCHANGED <<wsl_file, oplog, ea_out>>
       ELSE \E ok \in BOOLEAN :
            /\ ea_out' = downgrade_chain(wsl_file, wslfs).out
            /\ wsl_file' = [wsl_file EXCEPT !.file_handle = IF ok THEN "rw" ELSE "invalid"]
            /\ oplog' = Append(oplog, Op("reopen_to_write", <<>>, ok))
            /\ pc' = "write_ea"
            /\ UNCHANGED outcome
    /\ UNCHANGED ea_rest

\* ntfs_io::write_ea(wsl_file.file_handle, &ea_out.buffer), result ignored
DowngradeWriteEa ==
    /\ pc = "write_ea"
    /\ \E os_ok \in BOOLEAN :
        LET ok == os_ok /\ CanWrite(wsl_file)
        IN  /\ oplog' = Append(oplog, Op("write_ea", ea_out.buff, ok))
            /\ disk' = IF ok THEN [disk EXCEPT !.ea = OsSetEaFile(@, ea_out.buff)] ELSE disk
    /\ pc' = "delete_reparse"
    /\ UNCHANGED <<orig, wsl_file, ea_buffer, wslfs, lxfs, outcome, run, ea_out>>
    /\ UNCHANGED ea_rest

\* step 3 of downgrade: delete_reparse_point for a tag other than UNKNOWN,
\* result ignored.  The OS deletes the reparse point only if the tag given
\* is the file's tag.
DowngradeDeleteReparse ==
    /\ pc = "delete_reparse"
    /\ IF wslfs.reparse_tag # NoTag /\ wslfs.reparse_tag # "UNKNOWN"
       THEN \E os_ok \in BOOLEAN :
            LET tag == tag_id_of(wslfs.reparse_tag)
                ok  == os_ok /\ CanWrite(wsl_file) /\ disk.tag = tag
            IN  /\ oplog' = Append(oplog, Op("delete_reparse_point", <<tag>>, ok))
                /\ disk' = IF ok THEN [disk EXCEPT !.tag = NoTag, !.link = <<>>] ELSE disk
       ELSE UNCHANGED <<oplog, disk>>
    /\ pc' = "write_data"
    /\ UNCHANGED <<orig, wsl_file, ea_buffer, wslfs, lxfs, outcome, run, ea_out>>
    /\ UNCHANGED ea_rest

\* step 4 of downgrade: write_data(symlink.as_bytes()) for a symlink, result
\* ignored; WriteFile writes at the start of the file
DowngradeWriteData ==
    /\ pc = "write_data"
    /\ IF wslfs.symlink # None
       THEN \E os_ok \in BOOLEAN :
            LET bytes == wslfs.symlink[1]
                ok    == os_ok /\ CanWrite(wsl_file)
            IN  /\ oplog' = Append(oplog, Op("write_data", bytes, ok))
                /\ disk' = IF ok
                           THEN [disk EXCEPT !.content =
                                    bytes \o SubSeq(@, Len(bytes) + 1, Len(@))]
                           ELSE disk
       ELSE UNCHANGED <<oplog, disk>>
    /\ outcome' = "converted"
    /\ pc' = "done"
    /\ UNCHANGED <<orig, wsl_file, ea_buffer, wslfs, lxfs, run, ea_out>>
    /\ UNCHANGED ea_rest

\* downgrade_distro, one turn of its loop: what it prints for the entry once
\* downgrade_path returned with outcome o (Ok gives "downgrade success", Err
\* "downgrade failed"; downgrade_path returns Err only when open_handle
\* failed); a panic unwinds through the loop and ends the walk
downgrade_distro_report(o) ==
    CASE o = "open failed" -> "downgrade failed"
      [] o = "panic"       -> "panic"
      [] OTHER             -> "downgrade success"

NextMig ==
    \/ DowngradeOpen
    \/ DowngradeLoad
    \/ DowngradeStart
    \/ DowngradeWriteEa
    \/ DowngradeDeleteReparse
    \/ DowngradeWriteData

SpecMig == InitMig /\ [][NextMig]_vars

----------------------------------------------------------------------------
\* One change command (main.rs 240-382): open_to_change opens the file,
\* loads both codecs and picks one; the caller then uses the picked codec
\* through trait WslFileAttributes: setter calls, then save.

MaxOps == 2    \* setter calls before save

\* the EA sets of the files a change command is run on; one LXATTRB is
\* that of a character device 37,13 (mode 0o20666), one LXXATTR holds the
\* name "u" twice ("u" = "v", "u" = "")
ChgFiles ==
    { <<>>,
      <<Ea(LXUID, U32LE(1000)), Ea(LXGID, U32LE(100))>>,
      <<Ea(LXUID, U32LE(1000)), Ea(LXGID, U32LE(100)), Ea(LXMOD, U32LE(8630)),
        Ea(LXDEV, U32LE(37) \o U32LE(13)),
        Ea(LX_USER_TEST, LXEA \o Hello), Ea(LX_B, LXEA)>>,
      <<Ea(LX_B, LXEA \o Hello)>>,
      <<Ea(LXUID, <<1, 2>>)>>,
      <<Ea(LXATTRB, LxattrbValue(33188))>>,
      <<Ea(LXATTRB, LxattrbBytes([EaLxattrbV1_new(Some(FileTimes)) EXCEPT
                                     !.st_mode = 8630, !.st_uid = 7, !.st_gid = 8,
                                     !.st_rdev = make_dev(37, 13)]))>>,
      <<Ea(LXXATTR, LxxattrValue)>>,
      <<Ea(LXATTRB, LxattrbValue(33188)), Ea(LXXATTR, LxxattrValue)>>,
      <<Ea(LXUID, U32LE(1000)), Ea(LXATTRB, LxattrbValue(33188))>>,
      <<Ea(LXXATTR, LxxattrOut_add(LxxattrOut_add(LxxattrOutDefault, <<117>>, <<118>>),
                                   <<117>>, <<>>).buffer)>> }

\* the --fs_type argument
FsTypeArgs == {None, Some("Lxfs"), Some("Wslfs")}

\* what try_load_distro returns: no distro, the distro named by --distro, or
\* one found from the path of the file; a distro it returns has an fs_type
DistroArgs ==
    {None} \cup { Some([source |-> s, fs_type |-> t]) :
                     s \in {"Arg", "FilePath"}, t \in {"Lxfs", "Wslfs"} }

\* the command lines a change command is run with: without --fs_type every
\* distro, with --fs_type no distro or --distro of the other fs_type
ChgArgs ==
    { a \in FsTypeArgs \X DistroArgs :
        a[1] # None => \/ a[2] = None
                       \/ a[2][1].source = "Arg" /\ a[2][1].fs_type # a[1][1] }

\* attribute names given to set_attr and rm_attr: "b", "B", "u"
AttrNames == {<<98>>, <<66>>, <<117>>}

InitChg ==
    /\ \E eas \in ChgFiles, tag \in {NoTag, "IO_REPARSE_TAG_LX_CHR"} :
        disk = [ea |-> eas, tag |-> tag, link |-> <<>>, content |-> <<>>]
    /\ orig = disk
    /\ wsl_file = WslFileDefault
    /\ ea_buffer = None
    /\ wslfs = WslfsDefault
    /\ lxfs = LxfsDefault
    /\ pc = "idle"
    /\ oplog = <<>>
    /\ outcome = "none"
    /\ run = 0
    /\ chg = ChgIdle
    /\ rp = RpIdle
    /\ tm = TmIdle
    /\ input = <<>>
    /\ added = <<>>
    /\ ea_out = EaOutDefault
    /\ starts = <<>>
    /\ phase = "encode"
    /\ pbuf = <<>>
    /\ truncated = FALSE
    /\ corrupted = FALSE
    /\ parsed = NotParsed
    /\ reparsed = NotParsed

\* open_to_change, lines 241-244: load_wsl_file opens the file read-only
\* (a failed open panics in expect) and read_ea().unwrap_or(None)
ChgOpen ==
    /\ pc = "idle"
    /\ chg = ChgIdle
    /\ run = 0
    /\ run' = 1
    /\ \E args \in ChgArgs, open_ok, info_ok, ea_ok \in BOOLEAN :
        /\ chg' = [chg EXCEPT !.fs_type = args[1], !.distro = args[2]]
        /\ IF ~open_ok
           THEN /\ wsl_file' = WslFileDefault
                /\ ea_buffer' = None
                /\ outcome' = "panic"
                /\ pc' = "done"
           ELSE /\ wsl_file' = [file_handle |-> "ro", writable |-> FALSE,
                                reparse_tag |-> disk.tag,
                                basic_file_info |-> IF info_ok THEN Some(FileTimes) ELSE None]
                /\ ea_buffer' = IF ea_ok THEN read_ea_all(disk.ea) ELSE None
                /\ outcome' = "none"
                /\ pc' = "c_opened"
    /\ UNCHANGED <<disk, orig, wslfs, lxfs, oplog>>
    /\ UNCHANGED ea_vars

\* the choice with the first two branches exchanged
choose_fs_type_distro_first(fs_type, distro, w, l) ==
    CASE distro # None /\ distro[1].source = "Arg" -> distro[1].fs_type
      [] fs_type # None                  -> fs_type[1]
      [] Wslfs_maybe(w) /\ Lxfs_maybe(l) -> "both"
      [] Wslfs_maybe(w)                  -> "Wslfs"
      [] Lxfs_maybe(l)                   -> "Lxfs"
      [] OTHER                           -> "neither"

\* the codec open_to_change picks (lines 259-282): the --fs_type argument,
\* else the fs_type of the distro given by --distro, else the codec whose
\* maybe() holds if only one does
choose_fs_type(fs_type, distro, w, l) ==
    CASE fs_type # None                  -> fs_type[1]
      [] distro # None /\ distro[1].source = "Arg" -> distro[1].fs_type
      [] Wslfs_maybe(w) /\ Lxfs_maybe(l) -> "both"
      [] Wslfs_maybe(w)                  -> "Wslfs"
      [] Lxfs_maybe(l)                   -> "Lxfs"
      [] OTHER                           -> "neither"

\* open_to_change, lines 250-285: parse_ea, both loads, the choice of the
\* codec, reopen_to_write().unwrap().  A failed assert! or unwrap ends the
\* command with a panic; with no codec chosen the command returns.
ChgLoad ==
    /\ pc = "c_opened"
    /\ \E reopen_ok \in BOOLEAN :
        LET decoded   == IF ea_buffer = None THEN NotParsed ELSE parse_ea(ea_buffer[1])
            ea_parsed == IF ea_buffer = None THEN None ELSE Some(Fnv(decoded.entries))
            w   == WslfsParsed_load(wsl_file, ea_parsed, None)
            l   == LxfsParsed_load(wsl_file, ea_parsed, Some(read_data(disk.content)))
            use == choose_fs_type(chg.fs_type, chg.distro, w, l)
        IN  /\ wslfs' = w
            /\ lxfs' = l
            /\ CASE decoded.status = "panic" \/ w.panic \/ l.panic ->
                     /\ outcome' = "panic" /\ pc' = "done"
                     /\ UNCHANGED <<chg, wsl_file, oplog>>
                 [] OTHER ->
                     IF use \in {"both", "neither"}
                     THEN /\ outcome' = use /\ pc' = "done"
                          /\ UNCHANGED <<chg, wsl_file, oplog>>
                     ELSE /\ chg' = [chg EXCEPT !.use = use, !.lxfs0 = l, !.wslfs0 = w]
                          /\ oplog' = Append(oplog, Op("reopen_to_write", <<>>, reopen_ok))
                          /\ wsl_file' = [wsl_file EXCEPT
                                             !.file_handle = IF reopen_ok THEN "rw" ELSE "invalid",
                                             !.writable = reopen_ok]
                          /\ IF reopen_ok
                             THEN outcome' = "none" /\ pc' = "c_ready"
                             ELSE outcome' = "panic" /\ pc' = "done"
    /\ UNCHANGED <<disk, orig, ea_buffer, run>>
    /\ UNCHANGED ea_vars

\* a call of the chosen codec's setter: call is the record of the call (the
\* setter f, its number a or its name n and value v), l and w the codecs
\* after it
ChgCall(call, l, w) ==
    /\ pc = "c_ready"
    /\ Len(chg.calls) < MaxOps
    /\ chg' = [chg EXCEPT !.calls = Append(@, call)]
    /\ lxfs' = IF chg.use = "Lxfs" THEN l ELSE lxfs
    /\ wslfs' = IF chg.use = "Wslfs" THEN w ELSE wslfs
    /\ UNCHANGED <<disk, orig, wsl_file, ea_buffer, pc, oplog, outcome, run>>
    /\ UNCHANGED ea_vars

\* wsl_attrs.set_uid(uid)
ChgSetUid ==
    \E uid \in {0, 42} :
        ChgCall([f |-> "set_uid", a |-> uid, n |-> <<>>, v |-> <<>>], Lxfs_set_uid(lxfs, uid), Wslfs_set_uid(wslfs, uid))

\* wsl_attrs.set_gid(gid)
ChgSetGid ==
    \E gid \in {43} :
        ChgCall([f |-> "set_gid", a |-> gid, n |-> <<>>, v |-> <<>>], Lxfs_set_gid(lxfs, gid), Wslfs_set_gid(wslfs, gid))

\* wsl_attrs.set_mode(mode), mode 0o100755
ChgSetMode ==
    \E mode \in {33261} :
        ChgCall([f |-> "set_mode", a |-> mode, n |-> <<>>, v |-> <<>>],
                Lxfs_set_mode(lxfs, mode), Wslfs_set_mode(wslfs, mode))

\* wsl_attrs.set_dev_major(ma): majors that fit 12 bits, one that does not
ChgSetDevMajor ==
    \E ma \in {37, 2047, 4097} :
        ChgCall([f |-> "set_dev_major", a |-> ma, n |-> <<>>, v |-> <<>>],
                Lxfs_set_dev_major(lxfs, ma), Wslfs_set_dev_major(wslfs, ma))

\* wsl_attrs.set_dev_minor(mi): minors that fit 20 bits, one that does not
ChgSetDevMinor ==
    \E mi \in {13, 1048575, 1048589} :
        ChgCall([f |-> "set_dev_minor", a |-> mi, n |-> <<>>, v |-> <<>>],
                Lxfs_set_dev_minor(lxfs, mi), Wslfs_set_dev_minor(wslfs, mi))

\* wsl_attrs.set_attr(name, value), value "" or "w"
ChgSetAttr ==
    \E name \in AttrNames, value \in {<<>>, <<119>>} :
        ChgCall([f |-> "set_attr", a |-> 0, n |-> name, v |-> value],
                Lxfs_set_attr(lxfs, name, value), Wslfs_set_attr(wslfs, name, value))

\* wsl_attrs.rm_attr(name)
ChgRmAttr ==
    \E name \in AttrNames :
        ChgCall([f |-> "rm_attr", a |-> 0, n |-> name, v |-> <<>>],
                Lxfs_rm_attr(lxfs, name), Wslfs_rm_attr(wslfs, name))

\* wsl_attrs.save(&mut wsl_file): the chain is built from the chosen codec
\* and passed to ntfs_io::write_ea; the caller prints the error if any
ChgSave ==
    /\ pc = "c_ready"
    /\ chg.calls # <<>>
    /\ \E os_ok \in BOOLEAN :
        LET s  == IF chg.use = "Lxfs" THEN Lxfs_save(lxfs) ELSE Wslfs_save(wslfs)
            ok == os_ok /\ CanWrite(wsl_file)
        IN  /\ oplog' = Append(oplog, Op("write_ea", s.buf, ok))
            /\ disk' = IF ok THEN [disk EXCEPT !.ea = OsSetEaFile(@, s.buf)] ELSE disk
            /\ lxfs' = IF chg.use = "Lxfs" THEN s.p ELSE lxfs
            /\ wslfs' = IF chg.use = "Wslfs" THEN s.p ELSE wslfs
            /\ outcome' = IF ok THEN "saved" ELSE "save failed"
    /\ pc' = "done"
    /\ UNCHANGED <<orig, wsl_file, ea_buffer, run, chg>>
    /\ UNCHANGED ea_vars

NextChg ==
    \/ ChgOpen
    \/ ChgLoad
    \/ ChgSetUid
    \/ ChgSetGid
    \/ ChgSetMode
    \/ ChgSetDevMajor
    \/ ChgSetDevMinor
    \/ ChgSetAttr
    \/ ChgRmAttr
    \/ ChgSave

SpecChg == InitChg /\ [][NextChg]_vars

----------------------------------------------------------------------------
\* The reparse point of a symlink: ntfs_io::read_reparse_point with its one
\* retry, wslfs::read_lx_symlink on the buffer it returns, and the buffer
\* wslfs::set_wslfs_reparse_point builds for a symlink.  A String is held
\* as its UTF-8 bytes.

\* size_of::<REPARSE_GUID_DATA_BUFFER>(): u32, 2 x u16, a GUID, [u8; 1], padded to 4
REPARSE_GUID_DATA_BUFFER_SIZE == 28

\* offset_of!(ReparseDataBufferLxSymlink, lx_symlink_sig), offset_of!(.., link)
data_idx == 8
link_idx == 12

LX_SYMLINK_SIG == 2

\* IO_REPARSE_TAG_LX_SYMLINK = 0xA000001D as the four bytes of the u32
LX_SYMLINK_TAG_BYTES == <<29, 0, 0, 160>>

\* read_reparse_point_inner: FSCTL_GET_REPARSE_POINT into a buffer of size
\* bytes.  With room for the whole reparse data the call succeeds and the
\* buffer is truncated to the bytes returned; without, the OS fills the
\* buffer and reports ERROR_MORE_DATA; it reports another error if the file
\* has no reparse point or the call fails otherwise.
read_reparse_point_inner(raw, size, os_fail) ==
    CASE os_fail \/ raw = <<>> -> [err |-> "OTHER", buf |-> Zeros(size)]
      [] Len(raw) <= size      -> [err |-> "none", buf |-> raw]
      [] OTHER                 -> [err |-> "ERROR_MORE_DATA", buf |-> SubSeq(raw, 1, size)]

\* a reasonable init buf size 64
init_buf_size == REPARSE_GUID_DATA_BUFFER_SIZE + 36

\* a retry with the buffer size of the first query
retry_buf_size_same(first) == init_buf_size

\* the buffer size of the retry: the header size plus the
\* ReparseDataLength of the first response
retry_buf_size(first) == REPARSE_GUID_DATA_BUFFER_SIZE + RdU16(first, 4)

RECURSIVE from_utf8_lossy(_)
\* String::from_utf8_lossy on bytes that are ASCII, two-byte sequences
\* (C2..DF, 80..BF) or stray bytes: valid bytes are kept, a stray byte
\* becomes U+FFFD (EF BF BD)
from_utf8_lossy(b) ==
    IF \A i \in 1..Len(b) : b[i] < 128 THEN b
    ELSE IF b[1] < 128 THEN <<b[1]>> \o from_utf8_lossy(Tail(b))
    ELSE IF b[1] >= 194 /\ b[1] <= 223 /\ Len(b) >= 2 /\ b[2] >= 128 /\ b[2] <= 191
    THEN <<b[1], b[2]>> \o from_utf8_lossy(Tail(Tail(b)))
    ELSE <<239, 191, 189>> \o from_utf8_lossy(Tail(b))

\* a read_lx_symlink that does not look at the signature
read_lx_symlink_any_sig(raw_buf) ==
    LET data_len == RdU16(raw_buf, 4)
    IN  IF \/ Len(raw_buf) < link_idx
           \/ Slice(raw_buf, 0, 4) # LX_SYMLINK_TAG_BYTES
           \/ data_idx + data_len > Len(raw_buf)
           \/ data_idx + data_len < link_idx
        THEN [panic |-> TRUE, link |-> <<>>]
        ELSE [panic |-> FALSE,
              link  |-> from_utf8_lossy(SubSeq(raw_buf, link_idx + 1, data_idx + data_len))]

\* read_lx_symlink on the buffer read_reparse_point returned: the three
\* assert!s and the slice raw_buf[link_idx..data_idx + data_len] panic
read_lx_symlink(raw_buf) ==
    LET data_len == RdU16(raw_buf, 4)
    IN  IF \/ Len(raw_buf) < link_idx
           \/ Slice(raw_buf, 0, 4) # LX_SYMLINK_TAG_BYTES
           \/ data_idx + data_len > Len(raw_buf)
           \/ RdU32(raw_buf, data_idx) # LX_SYMLINK_SIG
           \/ data_idx + data_len < link_idx
        THEN [panic |-> TRUE, link |-> <<>>]
        ELSE [panic |-> FALSE,
              link  |-> from_utf8_lossy(SubSeq(raw_buf, link_idx + 1, data_idx + data_len))]

\* set_wslfs_reparse_point, the LNK arm: a zeroed buffer of
\* data_idx + data_len bytes with the tag, data_len as u16, the signature
\* and the bytes of the target
lx_symlink_buf(s) ==
    LX_SYMLINK_TAG_BYTES \o U16LE((Len(s) + 4) % 65536) \o U16LE(0)
    \o U32LE(LX_SYMLINK_SIG) \o s

\* a string of n letters a
LongTarget(n) == [i \in 1..n |-> 97] \o <<>>

\* the targets given to set_wslfs_reparse_point: empty, short, with a
\* two-byte character, too long for the first query's buffer (53, 300
\* bytes), and with data_len beyond a u16 (65532, 65536 bytes)
SetTargets ==
    << <<>>, <<120>>, <<47, 116>>, <<195, 169>>,
       LongTarget(52), LongTarget(53), LongTarget(300),
       LongTarget(65532), LongTarget(65536) >>

\* the reparse data of the file at the start: none, a symlink's (short or
\* longer than the first buffer), a device's (tag 0x80000025), and data that is
\* not what WSL writes: another signature, a data length beyond the buffer,
\* a target that is not UTF-8
RpFiles ==
    { <<>>,
      lx_symlink_buf(<<>>), lx_symlink_buf(<<120>>), lx_symlink_buf(<<195, 169>>),
      lx_symlink_buf(LongTarget(52)), lx_symlink_buf(LongTarget(53)),
      lx_symlink_buf(LongTarget(300)),
      <<37, 0, 0, 128>> \o U16LE(0) \o U16LE(0),
      <<37, 0, 0, 128>> \o U16LE(5) \o U16LE(0) \o U32LE(LX_SYMLINK_SIG) \o <<120>>,
      LX_SYMLINK_TAG_BYTES \o U16LE(5) \o U16LE(0) \o U32LE(1) \o <<120>>,
      LX_SYMLINK_TAG_BYTES \o U16LE(6) \o U16LE(0) \o U32LE(LX_SYMLINK_SIG) \o <<120>>,
      LX_SYMLINK_TAG_BYTES \o U16LE(0) \o U16LE(0),
      lx_symlink_buf(<<255>>) }

InitRp ==
    /\ \E raw \in RpFiles : rp = [RpIdle EXCEPT !.pc = "start", !.raw = raw]
    /\ tm = TmIdle
    /\ disk = NoFile
    /\ orig = NoFile
    /\ wsl_file = WslFileDefault
    /\ ea_buffer = None
    /\ wslfs = WslfsDefault
    /\ lxfs = LxfsDefault
    /\ pc = "idle"
    /\ oplog = <<>>
    /\ outcome = "none"
    /\ run = 0
    /\ chg = ChgIdle
    /\ input = <<>>
    /\ added = <<>>
    /\ ea_out = EaOutDefault
    /\ starts = <<>>
    /\ phase = "encode"
    /\ pbuf = <<>>
    /\ truncated = FALSE
    /\ corrupted = FALSE
    /\ parsed = NotParsed
    /\ reparsed = NotParsed

\* every variable but rp
rp_rest ==
    <<input, added, ea_out, starts, phase, pbuf, truncated, corrupted, parsed, reparsed,
      disk, orig, wsl_file, ea_buffer, wslfs, lxfs, pc, oplog, outcome, run, chg, tm>>

\* set_wslfs_reparse_point(wsl_file, LNK, Some(s)).  Without a reparse
\* point on the file it returns Err; a reparse point of another tag is
\* deleted first; then the buffer is built and written.  The OS takes a
\* buffer only if its length is 8 + ReparseDataLength and at most 16 KB.
RpSet ==
    /\ rp.pc = "start"
    /\ rp.built = None
    /\ \E k \in 1..Len(SetTargets), del_ok, os_ok \in BOOLEAN :
        LET other == Slice(rp.raw, 0, 4) # LX_SYMLINK_TAG_BYTES
            buf   == lx_symlink_buf(SetTargets[k])
            taken == os_ok /\ Len(buf) = data_idx + RdU16(buf, 4) /\ Len(buf) <= 16384
        IN  CASE rp.raw = <<>>      -> rp' = [rp EXCEPT !.res = "set failed"]
              [] other /\ ~del_ok   -> rp' = [rp EXCEPT !.res = "set failed"]
              [] OTHER ->
                   rp' = [rp EXCEPT !.built = Some(k),
                                    !.raw = IF taken THEN buf ELSE IF other THEN <<>> ELSE @,
                                    !.res = IF taken THEN "set" ELSE "set failed"]
    /\ UNCHANGED rp_rest

\* read_reparse_point: the first query, with a buffer of 64 bytes
RpQuery ==
    /\ rp.pc = "start"
    /\ \E os_fail \in BOOLEAN :
        LET r == read_reparse_point_inner(rp.raw, init_buf_size, os_fail)
        IN  rp' = [rp EXCEPT
                     !.queries = Append(@, [size |-> init_buf_size, err |-> r.err]),
                     !.first = r.buf,
                     !.buf = IF r.err = "none" THEN r.buf ELSE <<>>,
                     !.res = CASE r.err = "none" -> "Ok"
                               [] r.err = "ERROR_MORE_DATA" -> "none"
                               [] OTHER -> "Err",
                     !.pc = CASE r.err = "none" -> "read"
                              [] r.err = "ERROR_MORE_DATA" -> "retry"
                              [] OTHER -> "done"]
    /\ UNCHANGED rp_rest

\* read_reparse_point: the retry after ERROR_MORE_DATA
RpRetry ==
    /\ rp.pc = "retry"
    /\ \E os_fail \in BOOLEAN :
        LET size == retry_buf_size(rp.first)
            r    == read_reparse_point_inner(rp.raw, size, os_fail)
        IN  rp' = [rp EXCEPT
                     !.queries = Append(@, [size |-> size, err |-> r.err]),
                     !.buf = IF r.err = "none" THEN r.buf ELSE <<>>,
                     !.res = IF r.err = "none" THEN "Ok" ELSE "Err",
                     !.pc = IF r.err = "none" THEN "read" ELSE "done"]
    /\ UNCHANGED rp_rest

\* read_lx_symlink after read_reparse_point returned Ok(raw_buf)
RpReadLink ==
    /\ rp.pc = "read"
    /\ rp' = [rp EXCEPT
                !.link = IF read_lx_symlink(rp.buf).panic THEN None
                         ELSE Some(read_lx_symlink(rp.buf).link),
                !.res = IF read_lx_symlink(rp.buf).panic THEN "panic" ELSE "link",
                !.pc = "done"]
    /\ UNCHANGED rp_rest

NextRp == RpSet \/ RpQuery \/ RpRetry \/ RpReadLink

SpecRp == InitRp /\ [][NextRp]_vars

----------------------------------------------------------------------------
\* time_utils.rs: LxfsTime <-> FILETIME.  A u64 is four 16-bit limbs and a
\* u32 two, least significant first, because the tick values exceed the
\* checker's integers; the arithmetic is the source's, limb by limb.

RECURSIVE MulSmall(_, _, _)
\* x * k + c for a small k, as many limbs as x has (the carry out is dropped)
MulSmall(x, k, c) ==
    IF x = <<>> THEN <<>>
    ELSE <<(x[1] * k + c) % (2^16)>> \o MulSmall(Tail(x), k, (x[1] * k + c) \div (2^16))

RECURSIVE AddLimbs(_, _, _)
\* x + y + c, as many limbs as x has
AddLimbs(x, y, c) ==
    IF x = <<>> THEN <<>>
    ELSE <<(x[1] + y[1] + c) % (2^16)>>
         \o AddLimbs(Tail(x), Tail(y), (x[1] + y[1] + c) \div (2^16))

RECURSIVE SubLimbs(_, _, _)
\* x - y - b modulo 2^(16 * Len(x))
SubLimbs(x, y, b) ==
    IF x = <<>> THEN <<>>
    ELSE <<(x[1] - y[1] - b + 2^16) % (2^16)>>
         \o SubLimbs(Tail(x), Tail(y), IF x[1] - y[1] - b < 0 THEN 1 ELSE 0)

RECURSIVE LessLimbs(_, _)
\* x < y
LessLimbs(x, y) ==
    IF x = <<>> THEN FALSE
    ELSE \/ x[Len(x)] < y[Len(y)]
         \/ x[Len(x)] = y[Len(y)]
            /\ LessLimbs(SubSeq(x, 1, Len(x) - 1), SubSeq(y, 1, Len(y) - 1))

RECURSIVE DivSmall(_, _)
\* quotient q and remainder r of x by a small k
DivSmall(x, k) ==
    IF x = <<>> THEN [q |-> <<>>, r |-> 0]
    ELSE LET hi  == DivSmall(Tail(x), k)
             cur == hi.r * (2^16) + x[1]
         IN  [q |-> <<cur \div k>> \o hi.q, r |-> cur % k]

\* x / 10000000 and x % 10000000, by 10000 and then by 1000
DivTicks(x) ==
    LET a == DivSmall(x, 10000)
        b == DivSmall(a.q, 1000)
    IN  [q |-> b.q, r |-> b.r * 10000 + a.r]

\* 116444736000000000 = 0x019DB1DED53E8000 and 11644473600 = 0x2B6109100
EPOCH_TICKS == <<32768, 54590, 45534, 413>>
EPOCH_SECS  == <<37120, 46608, 2, 0>>

\* lxfs_time_to_u64 without the tv_nsec term
lxfs_time_to_u64_no_nsec(lt) ==
    LET wide == MulSmall(MulSmall(lt.tv_sec \o <<0, 0>>, 10000, 0), 1000, 0)
        sum  == AddLimbs(wide, EPOCH_TICKS \o <<0, 0>>, 0)
    IN  [val |-> SubSeq(sum, 1, 4), overflow |-> SubSeq(sum, 5, 6) # <<0, 0>>]

\* lxfs_time_to_u64: tv_sec * 10000000 + 116444736000000000 + tv_nsec / 100,
\* computed on six limbs; val is the u64 (the low four limbs), overflow says
\* that the sum does not fit it
lxfs_time_to_u64(lt) ==
    LET wide == MulSmall(MulSmall(lt.tv_sec \o <<0, 0>>, 10000, 0), 1000, 0)
        sum  == AddLimbs(AddLimbs(wide, EPOCH_TICKS \o <<0, 0>>, 0),
                         DivSmall(lt.tv_nsec, 100).q \o <<0, 0, 0, 0>>, 0)
    IN  [val |-> SubSeq(sum, 1, 4), overflow |-> SubSeq(sum, 5, 6) # <<0, 0>>]

\* u64_to_lxfs_time on the u64 itself: sec = t64 / 10^7 - 11644473600 and
\* nsec = (t64 % 10^7) as u32 * 100; overflow says that the subtraction
\* went below zero
u64_to_lxfs_time_limbs(t64) ==
    LET d == DivTicks(t64)
    IN  [tv_sec   |-> SubLimbs(d.q, EPOCH_SECS, 0),
         tv_nsec  |-> <<(d.r * 100) % (2^16), (d.r * 100) \div (2^16)>>,
         overflow |-> LessLimbs(d.q, EPOCH_SECS)]

\* u64_to_filetime, filetime_to_u64: the two halves of the ULARGE_INTEGER
u64_to_filetime(t64) ==
    [dwLowDateTime |-> SubSeq(t64, 1, 2), dwHighDateTime |-> SubSeq(t64, 3, 4)]
filetime_to_u64(ft) == ft.dwLowDateTime \o ft.dwHighDateTime

\* tv_sec: 0, 1, 1729741525, 2147483000, 1833029933769 (the last whose
\* ticks fit a u64), 1833029933770, 2^64 - 1
TimeSecs ==
    { <<0, 0, 0, 0>>, <<1, 0, 0, 0>>, <<49877, 26393, 0, 0>>, <<64888, 32767, 0, 0>>,
      <<6857, 51481, 426, 0>>, <<6858, 51481, 426, 0>>, <<65535, 65535, 65535, 65535>> }

\* tv_nsec: 0, 100, 3480100, 999999900, 150, 1000000000, 2^32 - 1
TimeNsecs ==
    { <<0, 0>>, <<100, 0>>, <<6692, 53>>, <<51612, 15258>>, <<150, 0>>,
      <<51712, 15258>>, <<65535, 65535>> }

InitTime ==
    /\ \E s \in TimeSecs, n \in TimeNsecs :
        tm = [TmIdle EXCEPT !.pc = "start", !.lt = [tv_sec |-> s, tv_nsec |-> n]]
    /\ rp = RpIdle
    /\ disk = NoFile
    /\ orig = NoFile
    /\ wsl_file = WslFileDefault
    /\ ea_buffer = None
    /\ wslfs = WslfsDefault
    /\ lxfs = LxfsDefault
    /\ pc = "idle"
    /\ oplog = <<>>
    /\ outcome = "none"
    /\ run = 0
    /\ chg = ChgIdle
    /\ input = <<>>
    /\ added = <<>>
    /\ ea_out = EaOutDefault
    /\ starts = <<>>
    /\ phase = "encode"
    /\ pbuf = <<>>
    /\ truncated = FALSE
    /\ corrupted = FALSE
    /\ parsed = NotParsed
    /\ reparsed = NotParsed

\* lxfs_time_to_filetime(lt).  An arithmetic overflow panics in a build with
\* overflow checks and wraps in one without.
TimeToFiletime ==
    /\ tm.pc = "start"
    /\ \E checks \in BOOLEAN :
        LET t == lxfs_time_to_u64(tm.lt)
        IN  IF t.overflow /\ checks
            THEN tm' = [tm EXCEPT !.pc = "done", !.res = "panic"]
            ELSE tm' = [tm EXCEPT !.pc = "ticks", !.ft = u64_to_filetime(t.val)]
    /\ UNCHANGED <<rp, chg>>
    /\ UNCHANGED <<disk, orig, wsl_file, ea_buffer, wslfs, lxfs, pc, oplog, outcome, run>>
    /\ UNCHANGED <<input, added, ea_out, starts, phase, pbuf, truncated, corrupted, parsed, reparsed>>

\* filetime_to_lxfs_time(ft)
TimeToLxfsTime ==
    /\ tm.pc = "ticks"
    /\ \E checks \in BOOLEAN :
        LET l == u64_to_lxfs_time_limbs(filetime_to_u64(tm.ft))
        IN  IF l.overflow /\ checks
            THEN tm' = [tm EXCEPT !.pc = "done", !.res = "panic"]
            ELSE tm' = [tm EXCEPT !.pc = "done", !.res = "ok",
                                  !.back = [tv_sec |-> l.tv_sec, tv_nsec |-> l.tv_nsec]]
    /\ UNCHANGED <<rp, chg>>
    /\ UNCHANGED <<disk, orig, wsl_file, ea_buffer, wslfs, lxfs, pc, oplog, outcome, run>>
    /\ UNCHANGED <<input, added, ea_out, starts, phase, pbuf, truncated, corrupted, parsed, reparsed>>

NextTime == TimeToFiletime \/ TimeToLxfsTime

SpecTime == InitTime /\ [][NextTime]_vars

\* the whole model: all parts
Init == InitEa \/ InitMig \/ InitChg \/ InitRp \/ InitTime
Next == NextEa \/ NextMig \/ NextChg \/ NextRp \/ NextTime
Spec == Init /\ [][Next]_vars

----------------------------------------------------------------------------
\* Properties of the EA chain codec (checked under SpecEa)

\* the buffer handed to parse_ea is exactly what EaOut produced
Untouched == ~truncated /\ ~corrupted

Decoded == phase \in {"parsed", "reencoded"}

\* C1 as stated: for every sequence of 0..N entries, parse_ea of the buffer
\* built by add_entry succeeds and yields the same names and values in the
\* same order.
C1_RoundTripFromZero ==
    (Decoded /\ Untouched) =>
        /\ parsed.status = "ok"
        /\ Nv(parsed.entries) = Nv(added)

\* C1 amended: for every sequence of 1..N entries (names up to 255 bytes,
\* values up to 65535 bytes), parse_ea of the buffer built by add_entry
\* succeeds and yields the same number of entries, in the same order, with
\* the same name and value bytes; the buffer of zero entries is empty and
\* parse_ea fails on it.
C1_RoundTrip ==
    (Decoded /\ Untouched) =>
        /\ added # <<>> =>
            /\ parsed.status = "ok"
            /\ Len(parsed.entries) = Len(added)
            /\ Nv(parsed.entries) = Nv(added)
        /\ added = <<>> => (pbuf = <<>> /\ parsed.status = "panic")

C1_Witness ==
    /\ phase = "parsed" /\ Untouched
    /\ Len(added) = MaxEntries
    /\ added[1] # added[2]
    /\ \E i \in 1..Len(added) : added[i].value = <<>>
    /\ parsed.status = "ok"

\* C2: for every buffer that parse_ea decodes without error, encoding the
\* decoded entries with EaOut and decoding again gives the same entries:
\* flags, name, value and order.
C2_DecodeEncodeDecode ==
    phase = "reencoded" =>
        /\ reparsed.status = "ok"
        /\ Fnv(reparsed.entries) = Fnv(parsed.entries)

\* C3: the entry size is 9 + name length + value length rounded up to the
\* next multiple of 4, and after any sequence of add calls every record
\* starts at a multiple of 4 and the buffer length is a multiple of 4.
C3_Alignment ==
    /\ ea_entry_size_inner(1, 0) = 12
    /\ ea_entry_size_inner(1, 1) = 12
    /\ ea_entry_size_inner(1, 2) = 12
    /\ ea_entry_size_inner(2, 2) = 16
    /\ ea_entry_size_inner(2, 3) = 16
    /\ \A n \in 0..MaxNameLen, v \in 0..MaxValueLen :
        LET size == ea_entry_size_inner(n, v)
        IN  size % 4 = 0 /\ size >= 9 + n + v /\ size < 9 + n + v + 4
    /\ Len(ea_out.buff) % 4 = 0
    /\ \A i \in 1..Len(starts) : starts[i] % 4 = 0
    /\ ea_out.last_ea_info # NoneInfo =>
        /\ ea_out.last_ea_info[1] % 4 = 0
        /\ ea_out.last_ea_info[1] + ea_out.last_ea_info[2] = Len(ea_out.buff)

C3_Witness ==
    /\ phase = "encode"
    /\ Len(starts) = MaxEntries
    /\ starts[2] = 16
    /\ Len(ea_out.buff) = 28

\* C4: for every buffer parse_ea either fails or returns only entries whose
\* header, name and value lie inside the buffer; it never touches a byte past
\* the end; the list it returns is the whole chain (first record at offset
\* 0, each next record where NextEntryOffset says, the last one with
\* NextEntryOffset 0); every truncation of a valid chain fails.
C4_BoundsSafety ==
    Decoded =>
        /\ parsed.status \in {"ok", "panic"}
        /\ parsed.max_read <= Len(pbuf)
        /\ truncated => parsed.status = "panic"
        /\ parsed.status = "ok" =>
            LET es == parsed.entries
                n  == Len(es)
            IN  /\ n >= 1
                /\ es[1].off = 0
                /\ \A i \in 1..n :
                    /\ es[i].off + EA_INFO_SIZE <= Len(pbuf)
                    /\ es[i].off + EA_BASE_SIZE_RAW + Len(es[i].name) + Len(es[i].value)
                         <= Len(pbuf)
                    /\ es[i].name = SubSeq(pbuf, es[i].off + 9, es[i].off + 8 + Len(es[i].name))
                /\ \A i \in 1..(n - 1) :
                    /\ RdU32(pbuf, es[i].off) # 0
                    /\ es[i + 1].off = es[i].off + RdU32(pbuf, es[i].off)
                /\ RdU32(pbuf, es[n].off) = 0

C4_Witness ==
    /\ phase = "parsed"
    /\ truncated
    /\ Len(pbuf) >= EA_INFO_SIZE
    /\ parsed.status = "panic"
    /\ Len(parsed.entries) >= 1

----------------------------------------------------------------------------
\* Properties of the two attribute codecs and of downgrade (checked under
\* SpecMig).  orig is the file as the current run found it; wslfs and lxfs
\* are what the run loaded from it.

\* the loads of the current run completed (no failed open, no panic)
Loaded ==
    \/ pc \in {"loaded", "write_ea", "delete_reparse", "write_data"}
    \/ pc = "done" /\ outcome \in {"maybe lxfs already", "converted"}

IsCompactName(name)   == name \in {LXATTRB, LXXATTR}
IsScatteredName(name) == name \in {LXUID, LXGID, LXMOD, LXDEV} \/ starts_with(name, LX_DOT)

HasCompact(eas)   == \E i \in 1..Len(eas) : IsCompactName(eas[i].name)
HasScattered(eas) == \E i \in 1..Len(eas) : IsScatteredName(eas[i].name)

\* the value of the entry called name
ValueIn(eas, name) == eas[CHOOSE i \in 1..Len(eas) : eas[i].name = name].value

\* the Compact codec holds a fixed record or named attributes for the file
LxfsClaims == lxfs.lxattrb # None \/ lxfs.lxxattr # None

\* the chains handed to write_ea by the current run, in order
RECURSIVE WrittenChains(_)
WrittenChains(log) ==
    IF log = <<>> THEN <<>>
    ELSE IF Head(log).op = "write_ea"
    THEN <<Head(log).arg>> \o WrittenChains(Tail(log))
    ELSE WrittenChains(Tail(log))

\* the message printed for a file the Compact codec claims (main.rs 542)
AlreadyMigrated == "maybe lxfs already"

\* C5 as stated: a file with only LXATTRB / LXXATTR entries has lxfs.maybe()
\* true and wslfs.maybe() false; a file with only $LXUID / $LXGID / $LXMOD /
\* $LXDEV / LX.* entries has wslfs.maybe() true and lxfs.maybe() false; a
\* file with entries of both has both true.
C5_SchemeExclusivity ==
    (Loaded /\ ea_buffer # None) =>
        /\ (HasCompact(orig.ea) /\ ~HasScattered(orig.ea)) =>
                (Lxfs_maybe(lxfs) /\ ~Wslfs_maybe(wslfs))
        /\ (HasScattered(orig.ea) /\ ~HasCompact(orig.ea)) =>
                (Wslfs_maybe(wslfs) /\ ~Lxfs_maybe(lxfs))
        /\ (HasCompact(orig.ea) /\ HasScattered(orig.ea)) =>
                (Lxfs_maybe(lxfs) /\ Wslfs_maybe(wslfs))

\* C5 amended: once the EAs of a file were read and both loads completed, a
\* file with only Compact entries has lxfs.maybe() true, and wslfs.maybe()
\* false exactly when the WslFile carries no reparse tag (with a tag
\* wslfs.maybe() is true); a file with only Scattered entries has
\* wslfs.maybe() true and lxfs.maybe() false; a file with entries of both
\* has both true.
C5_SchemeExclusivityUnlessTag ==
    (Loaded /\ ea_buffer # None) =>
        /\ (HasCompact(orig.ea) /\ ~HasScattered(orig.ea)) =>
                /\ Lxfs_maybe(lxfs)
                /\ Wslfs_maybe(wslfs) <=> (wsl_file.reparse_tag # NoTag)
        /\ (HasScattered(orig.ea) /\ ~HasCompact(orig.ea)) =>
                (Wslfs_maybe(wslfs) /\ ~Lxfs_maybe(lxfs))
        /\ (HasCompact(orig.ea) /\ HasScattered(orig.ea)) =>
                (Lxfs_maybe(lxfs) /\ Wslfs_maybe(wslfs))

C5_Witness ==
    /\ Loaded /\ ea_buffer # None
    /\ HasCompact(orig.ea) /\ ~HasScattered(orig.ea)
    /\ wsl_file.reparse_tag # NoTag
    /\ Lxfs_maybe(lxfs) /\ Wslfs_maybe(wslfs)

C8_FixedRecord ==
    \A k \in 1..Len(WrittenChains(oplog)) :
        LET es  == parse_ea(WrittenChains(oplog)[k]).entries
            rec == LxattrbFromBytes(es[1].value)
            fbi == wsl_file.basic_file_info
        IN  /\ ~LxfsClaims
            /\ es[1].name = LXATTRB
            /\ Len(es[1].value) = LXATTRB_SIZE
            /\ rec.version = 1
            /\ rec.flags = 0
            /\ rec.st_uid  = unwrap_or(Wslfs_get_uid(wslfs), 0)
            /\ rec.st_gid  = unwrap_or(Wslfs_get_gid(wslfs), 0)
            /\ rec.st_mode = unwrap_or(Wslfs_get_mode(wslfs), 0)
            /\ rec.st_rdev = IF Wslfs_get_dev_major(wslfs) = None THEN 0
                             ELSE Wslfs_get_dev_major(wslfs)[1] * 1048576
                                    + Wslfs_get_dev_minor(wslfs)[1]
            /\ ea_buffer # None =>
                /\ rec.st_uid  = IF HasName(orig.ea, LXUID)
                                 THEN RdU32(ValueIn(orig.ea, LXUID), 0) ELSE 0
                /\ rec.st_gid  = IF HasName(orig.ea, LXGID)
                                 THEN RdU32(ValueIn(orig.ea, LXGID), 0) ELSE 0
                /\ rec.st_mode = IF HasName(orig.ea, LXMOD)
                                 THEN RdU32(ValueIn(orig.ea, LXMOD), 0) ELSE 0
            /\ ea_buffer = None =>
                (rec.st_uid = 0 /\ rec.st_gid = 0 /\ rec.st_mode = 0 /\ rec.st_rdev = 0)
            /\ fbi # None =>
                /\ rec.st_atime = fbi[1].LastAccessTime.sec
                /\ rec.st_mtime = fbi[1].LastWriteTime.sec
                /\ rec.st_ctime = fbi[1].ChangeTime.sec
                /\ rec.st_atime_nsec = fbi[1].LastAccessTime.ns100 * 100
                /\ rec.st_mtime_nsec = fbi[1].LastWriteTime.ns100 * 100
                /\ rec.st_ctime_nsec = fbi[1].ChangeTime.ns100 * 100
            /\ fbi = None =>
                /\ rec.st_atime = 0 /\ rec.st_mtime = 0 /\ rec.st_ctime = 0
                /\ rec.st_atime_nsec = 0 /\ rec.st_mtime_nsec = 0 /\ rec.st_ctime_nsec = 0

\* a converted character device with owner, group, mode and times
C8_Witness ==
    /\ pc = "done" /\ outcome = "converted"
    /\ wsl_file.basic_file_info # None
    /\ HasName(disk.ea, LXATTRB)
    /\ LxattrbFromBytes(ValueIn(disk.ea, LXATTRB)) =
         [flags |-> 0, version |-> 1, st_mode |-> 8630, st_uid |-> 1000, st_gid |-> 100,
          st_rdev |-> 38797325,
          st_atime_nsec |-> 2200, st_mtime_nsec |-> 3300, st_ctime_nsec |-> 4400,
          st_atime |-> 2000, st_mtime |-> 3000, st_ctime |-> 4000]

\* the entries that C9 expects in LXXATTR, with the name as keep or change
\* makes it
NamedFrom(dots, lower) ==
    [i \in 1..Len(dots) |->
        [name  |-> IF lower
                   THEN [j \in 1..(Len(dots[i].name) - 3) |->
                            LET c == dots[i].name[j + 3]
                            IN  IF c >= 65 /\ c <= 90 THEN c + 32 ELSE c] \o <<>>
                   ELSE SubSeq(dots[i].name, 4, Len(dots[i].name)),
         value |-> SubSeq(dots[i].value, 5, Len(dots[i].value))]] \o <<>>

\* the LX.* entries of the file, in on-disk order
RECURSIVE LxDotsOf(_)
LxDotsOf(eas) ==
    IF eas = <<>> THEN <<>>
    ELSE IF starts_with(Head(eas).name, LX_DOT)
    THEN <<[name |-> Head(eas).name, value |-> Head(eas).value]>> \o LxDotsOf(Tail(eas))
    ELSE LxDotsOf(Tail(eas))

----------------------------------------------------------------------------
\* C11 .. C20

\* the positions of the calls of one kind in the log of the current run
OpsAt(kind) == { k \in 1..Len(oplog) : oplog[k].op = kind }

\* the run is past step 3 of downgrade (the reparse-point delete)
PastDelete == pc = "write_data" \/ (pc = "done" /\ outcome = "converted")

\* C11: a converting run issues a delete_reparse_point call if and only if
\* the file it opened carried one of the five recognized tags; the call
\* names that tag; there is at most one; a file without a tag or with
\* another tag gets none; the call comes after the write_ea call and before
\* the write_data call.
C11_DeleteReparse ==
    /\ Cardinality(OpsAt("delete_reparse_point")) <= 1
    /\ \A k \in OpsAt("delete_reparse_point") :
        /\ orig.tag \in RecognizedTags
        /\ oplog[k].arg = <<orig.tag>>
        /\ \E j \in OpsAt("write_ea") : j < k
        /\ \A j \in OpsAt("write_ea") : j < k
        /\ \A j \in OpsAt("write_data") : j > k
    /\ PastDelete =>
        (OpsAt("delete_reparse_point") # {} <=> orig.tag \in RecognizedTags)
    /\ pc \in {"write_ea", "delete_reparse"} => OpsAt("delete_reparse_point") = {}

\* a converted socket: the reparse point was deleted after the EA write
C11_Witness ==
    /\ pc = "done" /\ outcome = "converted"
    /\ orig.tag = "IO_REPARSE_TAG_AF_UNIX"
    /\ Len(oplog) = 3
    /\ oplog[2].op = "write_ea"
    /\ oplog[3] = Op("delete_reparse_point", <<"IO_REPARSE_TAG_AF_UNIX">>, TRUE)
    /\ disk.tag = NoTag

\* C12: a converting run on a file that carried the symlink tag issues a
\* write_data call with the link target; whenever a run has deleted the
\* symlink reparse point the file's content is the link target; a run on a
\* file without the symlink tag issues no write_data call.
C12_SymlinkKept ==
    /\ (pc = "done" /\ outcome = "converted" /\ orig.tag = "IO_REPARSE_TAG_LX_SYMLINK") =>
        \E k \in OpsAt("write_data") : oplog[k].arg = orig.link
    /\ (orig.tag = "IO_REPARSE_TAG_LX_SYMLINK" /\ disk.tag = NoTag) =>
        disk.content = orig.link
    /\ orig.tag # "IO_REPARSE_TAG_LX_SYMLINK" => OpsAt("write_data") = {}

\* C13: a run in which the open, the reopen for write, the EA write, the
\* reparse-point delete or the content write failed is reported by
\* downgrade_distro as a failure for that file, never as a success.
C13_FailureReported ==
    (pc = "done" /\ (outcome = "open failed" \/ \E k \in 1..Len(oplog) : ~oplog[k].ok)) =>
        downgrade_distro_report(outcome) = "downgrade failed"

\* the EA entries the current run decoded (none when the EA query failed)
DecodedEas == IF ea_buffer = None THEN <<>> ELSE orig.ea

\* the five getters of the Compact codec all return no value
LxfsGettersNone ==
    /\ Lxfs_get_uid(lxfs) = None
    /\ Lxfs_get_gid(lxfs) = None
    /\ Lxfs_get_mode(lxfs) = None
    /\ Lxfs_get_dev_major(lxfs) = None
    /\ Lxfs_get_dev_minor(lxfs) = None

\* C14 as stated: when the decoded entries hold no LXATTRB entry,
\* lxfs.maybe() is false and the five getters return no value, whatever
\* other entries (an LXXATTR entry included) there are.
C14_NoRecordNoClaim ==
    (Loaded /\ ~HasName(DecodedEas, LXATTRB)) =>
        (~Lxfs_maybe(lxfs) /\ LxfsGettersNone)

\* C14 amended: when the decoded entries hold no LXATTRB entry, the five
\* getters return no value, and lxfs.maybe() is true exactly when there is
\* an LXXATTR entry.
C14_NoRecordNoValue ==
    (Loaded /\ ~HasName(DecodedEas, LXATTRB)) =>
        /\ LxfsGettersNone
        /\ Lxfs_maybe(lxfs) <=> HasName(DecodedEas, LXXATTR)

\* a file with LXXATTR and $LXUID but no LXATTRB: claimed, no values
C14_Witness ==
    /\ Loaded
    /\ HasName(DecodedEas, LXXATTR) /\ HasName(DecodedEas, LXUID)
    /\ ~HasName(DecodedEas, LXATTRB)
    /\ Lxfs_maybe(lxfs)
    /\ LxfsGettersNone

\* a setter of the chosen codec is called in this step
SetterCalled == Len(chg'.calls) = Len(chg.calls) + 1

\* the setter call of this step
ThisCall == chg'.calls[Len(chg'.calls)]

\* the change command used the Compact codec and save has run
LxfsSaved == pc = "done" /\ outcome \in {"saved", "save failed"} /\ chg.use = "Lxfs"

\* the setters that work on the fixed record
RecordSetters == {"set_uid", "set_gid", "set_mode", "set_dev_major", "set_dev_minor"}

\* the field of the record a setter is about
FieldOf(f) ==
    CASE f = "set_uid"  -> "st_uid"
      [] f = "set_gid"  -> "st_gid"
      [] f = "set_mode" -> "st_mode"
      [] OTHER          -> "st_rdev"

\* the record a setter starts from: the decoded one, or version 1, flags 0,
\* mode 0o100644, ids and rdev 0 and the file's access, write and change
\* times (zero if the file's basic times could not be read)
RecordBefore ==
    IF lxfs.lxattrb # None THEN lxfs.lxattrb[1].rec
    ELSE LET t == wsl_file.basic_file_info
             a == IF t = None THEN [tv_sec |-> 0, tv_nsec |-> 0]
                  ELSE u64_to_lxfs_time(t[1].LastAccessTime)
             m == IF t = None THEN [tv_sec |-> 0, tv_nsec |-> 0]
                  ELSE u64_to_lxfs_time(t[1].LastWriteTime)
             c == IF t = None THEN [tv_sec |-> 0, tv_nsec |-> 0]
                  ELSE u64_to_lxfs_time(t[1].ChangeTime)
         IN  [flags |-> 0, version |-> 1, st_mode |-> 33188,
              st_uid |-> 0, st_gid |-> 0, st_rdev |-> 0,
              st_atime_nsec |-> a.tv_nsec, st_mtime_nsec |-> m.tv_nsec,
              st_ctime_nsec |-> c.tv_nsec,
              st_atime |-> a.tv_sec, st_mtime |-> m.tv_sec, st_ctime |-> c.tv_sec]

\* after the setter call of this step the record exists, is marked changed
\* and differs from the record before in the setter's field at most
OnlyOwnField ==
    /\ lxfs'.lxattrb # None
    /\ lxfs'.lxattrb[1].owned
    /\ \A k \in DOMAIN RecordBefore \ {FieldOf(ThisCall.f)} :
          lxfs'.lxattrb[1].rec[k] = RecordBefore[k]

\* the getter of the field set in this step returns the value set
GetterReturnsValueSet ==
    CASE ThisCall.f = "set_uid"       -> Lxfs_get_uid(lxfs') = Some(ThisCall.a)
      [] ThisCall.f = "set_gid"       -> Lxfs_get_gid(lxfs') = Some(ThisCall.a)
      [] ThisCall.f = "set_mode"      -> Lxfs_get_mode(lxfs') = Some(ThisCall.a)
      [] ThisCall.f = "set_dev_major" -> Lxfs_get_dev_major(lxfs') = Some(ThisCall.a)
      [] ThisCall.f = "set_dev_minor" -> Lxfs_get_dev_minor(lxfs') = Some(ThisCall.a)

\* the same, with the device numbers as the packed u32 holds them: the
\* major modulo 2^12, the minor modulo 2^20 with its higher bits OR-ed into
\* the major
GetterReturnsValueStored ==
    CASE ThisCall.f = "set_dev_major" ->
            /\ Lxfs_get_dev_major(lxfs') = Some(ThisCall.a % 4096)
            /\ Lxfs_get_dev_minor(lxfs') = Some(RecordBefore.st_rdev % 1048576)
      [] ThisCall.f = "set_dev_minor" ->
            /\ Lxfs_get_dev_minor(lxfs') = Some(ThisCall.a % 1048576)
            /\ Lxfs_get_dev_major(lxfs') =
                  Some(BitOr(RecordBefore.st_rdev \div 1048576, ThisCall.a \div 1048576) % 4096)
      [] OTHER -> GetterReturnsValueSet

\* the chain save passed to write_ea has an LXATTRB entry that holds the
\* record as the setters left it
SavedRecordWritten ==
    LET chain == parse_ea(oplog[Len(oplog)].arg).entries
    IN  /\ oplog[Len(oplog)].op = "write_ea"
        /\ HasName(chain, LXATTRB)
        /\ LxattrbFromBytes(ValueIn(chain, LXATTRB)) = lxfs.lxattrb[1].rec

\* a setter of the fixed record was called before save
RecordSetterCalled == \E i \in 1..Len(chg.calls) : chg.calls[i].f \in RecordSetters

\* C15 as stated: a Compact setter starts from the decoded record or from
\* the default one (version 1, flags 0, mode 0o100644, uid, gid, rdev 0,
\* times from the file), changes only its own field, the getter then
\* returns the value set, and the next save writes an LXATTRB entry holding
\* the record
C15_GetterReturnsSet ==
    /\ [][SetterCalled /\ chg.use = "Lxfs" /\ ThisCall.f \in RecordSetters
            => OnlyOwnField /\ GetterReturnsValueSet]_vars
    /\ [](LxfsSaved /\ RecordSetterCalled => SavedRecordWritten)

\* C15 amended: as above, but the getter returns the value set only as far
\* as the packed device number holds it: set_dev_major keeps the major
\* modulo 2^12 and the minor as it was, set_dev_minor keeps the minor modulo
\* 2^20 and ORs its higher bits into the major
C15_GetterReturnsStored ==
    /\ [][SetterCalled /\ chg.use = "Lxfs" /\ ThisCall.f \in RecordSetters
            => OnlyOwnField /\ GetterReturnsValueStored]_vars
    /\ [](LxfsSaved /\ RecordSetterCalled => SavedRecordWritten)

\* a file without LXATTRB got its record from set_uid and save wrote it
C15_Witness ==
    /\ LxfsSaved /\ outcome = "saved"
    /\ chg.lxfs0.lxattrb = None
    /\ chg.calls = <<[f |-> "set_uid", a |-> 42, n |-> <<>>, v |-> <<>>]>>
    /\ HasName(disk.ea, LXATTRB)
    /\ RdU32(ValueIn(disk.ea, LXATTRB), 8) = 42
    /\ RdU32(ValueIn(disk.ea, LXATTRB), 4) = 33188

\* the entries of the chain that save passed to write_ea
SavedChain == parse_ea(oplog[Len(oplog)].arg).entries

\* set_attr or rm_attr was called before save
AttrSetterCalled == \E i \in 1..Len(chg.calls) : chg.calls[i].f \in {"set_attr", "rm_attr"}

\* C16 as stated: the chain LxfsParsed::save passes to write_ea contains
\* the LXATTRB entry only if a setter of the record was called since load,
\* and the LXXATTR entry only if set_attr or rm_attr was called since load
C16_OnlyChanged ==
    LxfsSaved =>
        /\ HasName(SavedChain, LXATTRB) => RecordSetterCalled
        /\ HasName(SavedChain, LXXATTR) => AttrSetterCalled

\* the change command used the Scattered codec and save has run
WslfsSaved == pc = "done" /\ outcome \in {"saved", "save failed"} /\ chg.use = "Wslfs"

\* one of the setters fs was called before save
Called(fs) == \E i \in 1..Len(chg.calls) : chg.calls[i].f \in fs

\* set_attr or rm_attr was called with the name an LX.* entry displays
Touched(e) ==
    \E i \in 1..Len(chg.calls) :
        /\ chg.calls[i].f \in {"set_attr", "rm_attr"}
        /\ chg.calls[i].n = LxDotAttr_name(e)

\* the last call removed an attribute that was there under the name given:
\* loaded from the file, or set by the call before (the entry is then named
\* "LX." + name and displayed lower-cased)
RemovedLast(a) ==
    /\ chg.calls[Len(chg.calls)].f = "rm_attr"
    /\ chg.calls[Len(chg.calls)].n = a
    /\ \/ \E i \in 1..Len(chg.wslfs0.lx_dot_ea) : LxDotAttr_name(chg.wslfs0.lx_dot_ea[i]) = a
       \/ Len(chg.calls) = 2 /\ chg.calls[1].f = "set_attr" /\ to_ascii_lowercase(chg.calls[1].n) = a

\* C17 as stated: the chain WslfsParsed::save passes to write_ea contains a
\* scalar entry only if its setter was called since load and an LX.* entry
\* only if set_attr or rm_attr touched it since load; it contains an
\* empty-valued entry for a removed attribute, which is dropped from the
\* in-memory list
C17_OnlyChanged ==
    WslfsSaved =>
        /\ \A i \in 1..Len(SavedChain) :
              LET e == SavedChain[i]
              IN  CASE e.name = LXUID -> Called({"set_uid"})
                    [] e.name = LXGID -> Called({"set_gid"})
                    [] e.name = LXMOD -> Called({"set_mode"})
                    [] e.name = LXDEV -> Called({"set_dev_major", "set_dev_minor"})
                    [] OTHER          -> starts_with(e.name, LX_DOT) /\ Touched(e)
        /\ \A a \in AttrNames :
              RemovedLast(a) =>
                /\ \E i \in 1..Len(SavedChain) :
                      /\ starts_with(SavedChain[i].name, LX_DOT)
                      /\ LxDotAttr_name(SavedChain[i]) = a
                      /\ SavedChain[i].value = <<>>
                /\ \A i \in 1..Len(wslfs.lx_dot_ea) : wslfs.lx_dot_ea[i].value # <<>>

\* majors and minors that fit the packed encoding, up to the largest
\* minor; the largest major is the largest whose packed value the checker's
\* integers hold
FitMajors == {0, 1, 37, 255, 2047}
FitMinors == {0, 1, 13, 255, 65536, 1048575}

\* C20: for majors and minors that fit the packed encoding (major < 2^12,
\* minor < 2^20) dev_major(make_dev(major, minor)) = major and
\* dev_minor(make_dev(major, minor)) = minor; on the Compact record
\* set_dev_major of such a major leaves get_dev_minor as it was and
\* set_dev_minor of such a minor leaves get_dev_major as it was (for a
\* record created by the call: the 0 of the default record)
C20_DevRoundTrip ==
    /\ [](\A ma \in FitMajors, mi \in FitMinors :
            /\ dev_major(make_dev(ma, mi)) = ma
            /\ dev_minor(make_dev(ma, mi)) = mi)
    /\ [][SetterCalled /\ chg.use = "Lxfs" /\ ThisCall.f = "set_dev_major" /\ ThisCall.a < 4096
            => /\ Lxfs_get_dev_major(lxfs') = Some(ThisCall.a)
               /\ Lxfs_get_dev_minor(lxfs') = Some(dev_minor(RecordBefore.st_rdev))]_vars
    /\ [][SetterCalled /\ chg.use = "Lxfs" /\ ThisCall.f = "set_dev_minor" /\ ThisCall.a < 1048576
            => /\ Lxfs_get_dev_minor(lxfs') = Some(ThisCall.a)
               /\ Lxfs_get_dev_major(lxfs') = Some(dev_major(RecordBefore.st_rdev))]_vars

\* set_dev_minor(13) then set_dev_major(37) on a file without a device
\* number, saved: the record on disk holds 37 << 20 | 13
C20_Witness ==
    /\ LxfsSaved /\ outcome = "saved"
    /\ Len(chg.calls) = 2
    /\ chg.calls[1].f = "set_dev_minor" /\ chg.calls[1].a = 13
    /\ chg.calls[2].f = "set_dev_major" /\ chg.calls[2].a = 37
    /\ Lxfs_get_dev_major(lxfs) = Some(37)
    /\ Lxfs_get_dev_minor(lxfs) = Some(13)
    /\ RdU32(ValueIn(disk.ea, LXATTRB), 16) = 38797325

\* read_reparse_point returned Ok / Err
ReadOk  == rp.pc = "read" \/ rp.res \in {"link", "panic"}
ReadErr == rp.pc = "done" /\ rp.res = "Err"

\* C18: read_reparse_point queries the OS at most twice; the second query
\* is made only after ERROR_MORE_DATA, with a buffer of the header size
\* plus the data length the first response declares, which holds the whole
\* reparse data; another failure of the first query and any failure of the
\* second give Err without a further query; data longer than the first
\* buffer is returned whole after exactly one retry
C18_RetryProtocol ==
    /\ Len(rp.queries) <= 2
    /\ Len(rp.queries) = 2 =>
          /\ rp.queries[1].err = "ERROR_MORE_DATA"
          /\ rp.queries[2].size = REPARSE_GUID_DATA_BUFFER_SIZE + RdU16(rp.raw, 4)
          /\ rp.queries[2].size >= Len(rp.raw)
          /\ rp.queries[2].err \in {"none", "OTHER"}
          /\ rp.queries[2].err = "OTHER" => ReadErr
    /\ (rp.queries # <<>> /\ rp.queries[1].err = "OTHER") =>
          ReadErr /\ Len(rp.queries) = 1
    /\ (rp.queries # <<>> /\ rp.queries[1].err = "none") =>
          ReadOk /\ Len(rp.queries) = 1
    /\ ReadOk => rp.buf = rp.raw
    /\ (ReadOk /\ Len(rp.raw) > 64) => Len(rp.queries) = 2

\* a symlink with a target of 300 bytes was read with one retry
C18_Witness ==
    /\ rp.raw = lx_symlink_buf(LongTarget(300))
    /\ Len(rp.queries) = 2
    /\ rp.queries[2].size = 332
    /\ rp.res = "link"
    /\ rp.link = Some(LongTarget(300))

\* the buffer set_wslfs_reparse_point built for target s has the layout of
\* a symlink's reparse data: tag, data length, reserved 0, signature 2, the
\* bytes of s and nothing after them
SymlinkLayout(b, s, data_len) ==
    /\ Len(b) = 12 + Len(s)
    /\ Slice(b, 0, 4) = LX_SYMLINK_TAG_BYTES
    /\ RdU16(b, 4) = data_len
    /\ RdU16(b, 6) = 0
    /\ RdU32(b, 8) = 2
    /\ SubSeq(b, 13, Len(b)) = s

\* read_lx_symlink returned a string only for a buffer with the symlink
\* tag, the signature 2 and a data length inside the buffer
LinkOnlyIfWellFormed ==
    rp.res = "link" =>
        /\ Slice(rp.buf, 0, 4) = LX_SYMLINK_TAG_BYTES
        /\ RdU32(rp.buf, 8) = 2
        /\ 8 + RdU16(rp.buf, 4) <= Len(rp.buf)

\* C19 as stated: for every target the buffer built by
\* set_wslfs_reparse_point is tag 0xA000001D, data length = target length
\* + 4, reserved 0, signature 2, the target's bytes, 12 + target length
\* bytes in all; read_lx_symlink on that buffer returns the target; and
\* read_lx_symlink fails on another tag, another signature or a data
\* length beyond the buffer
C19_EveryTarget ==
    /\ rp.built # None =>
          LET s == SetTargets[rp.built[1]]
              b == lx_symlink_buf(s)
          IN  /\ SymlinkLayout(b, s, Len(s) + 4)
              /\ read_lx_symlink(b) = [panic |-> FALSE, link |-> s]
    /\ LinkOnlyIfWellFormed

\* C19 amended: the same for every target shorter than 65532 bytes; for a
\* longer target the data length field holds (target length + 4) modulo
\* 2^16 and read_lx_symlink on the buffer does not return the target
C19_TargetBelow64K ==
    /\ rp.built # None =>
          LET s == SetTargets[rp.built[1]]
              b == lx_symlink_buf(s)
          IN  IF Len(s) + 4 < 65536
              THEN /\ SymlinkLayout(b, s, Len(s) + 4)
                   /\ read_lx_symlink(b) = [panic |-> FALSE, link |-> s]
              ELSE /\ SymlinkLayout(b, s, (Len(s) + 4) % 65536)
                   /\ read_lx_symlink(b) # [panic |-> FALSE, link |-> s]
    /\ LinkOnlyIfWellFormed

\* the target "e-acute" was set on a symlink and read back from the file
C19_Witness ==
    /\ rp.built # None
    /\ SetTargets[rp.built[1]] = <<195, 169>>
    /\ rp.raw = lx_symlink_buf(<<195, 169>>)
    /\ rp.res = "link"
    /\ rp.link = Some(<<195, 169>>)

----------------------------------------------------------------------------
\* Scheme selection of a change command

\* open_to_change has loaded both codecs and made its choice (or refused)
ChgLoadDone ==
    \/ pc = "c_ready"
    \/ pc = "done" /\ (outcome \in {"both", "neither", "saved", "save failed"} \/ oplog # <<>>)

\* neither --fs_type nor --distro names a codec
NoSchemeArg ==
    chg.fs_type = None /\ (chg.distro = None \/ chg.distro[1].source # "Arg")

\* the two codecs as open_to_change loaded them
LoadedWslfs == IF chg.use = "none" THEN wslfs ELSE chg.wslfs0
LoadedLxfs == IF chg.use = "none" THEN lxfs ELSE chg.lxfs0

\* the command ended at the choice: no codec, the handle still the read-only
\* one, no OS call made and the file as it was
Refused(why) ==
    /\ pc = "done" /\ outcome = why
    /\ chg.use = "none"
    /\ oplog = <<>>
    /\ disk = orig
    /\ wsl_file.file_handle = "ro" /\ ~wsl_file.writable

\* C21: a change command given neither --fs_type nor --distro is refused,
\* with no reopen and no write, when both codecs claim the file and when
\* neither does, and uses the claiming codec when exactly one does; --fs_type
\* selects the named codec whatever the distro's fs_type and whatever maybe()
\* says.  The chosen codec is the only one the setters and save touch, and
\* the chain written is the one that codec saves.
C21_SchemeSelection ==
    ChgLoadDone =>
        LET w == Wslfs_maybe(LoadedWslfs)
            l == Lxfs_maybe(LoadedLxfs)
        IN  /\ chg.fs_type # None => chg.use = chg.fs_type[1]
            /\ NoSchemeArg /\ w /\ l => Refused("both")
            /\ NoSchemeArg /\ ~w /\ ~l => Refused("neither")
            /\ NoSchemeArg /\ w /\ ~l => chg.use = "Wslfs"
            /\ NoSchemeArg /\ l /\ ~w => chg.use = "Lxfs"
            /\ chg.use = "none" => Refused(outcome)
            /\ chg.use # "none" => oplog[1].op = "reopen_to_write"
            /\ chg.use = "Lxfs" => wslfs = chg.wslfs0
            /\ chg.use = "Wslfs" => lxfs = chg.lxfs0

\* C21 witness: chown --fs_type lxfs --distro <a wslfs distro> on a file only
\* the Scattered codec claims was saved through the Compact codec
C21_Witness ==
    /\ pc = "done" /\ outcome = "saved"
    /\ chg.fs_type = Some("Lxfs")
    /\ chg.distro = Some([source |-> "Arg", fs_type |-> "Wslfs"])
    /\ Wslfs_maybe(chg.wslfs0) /\ ~Lxfs_maybe(chg.lxfs0)
    /\ chg.use = "Lxfs"
    /\ oplog[Len(oplog)].op = "write_ea"

----------------------------------------------------------------------------
\* Layout of the LXXATTR mini-chain

RECURSIVE MiniStart(_, _, _)
\* where record i starts when every record takes fixed + name + value bytes
MiniStart(list, i, fixed) ==
    IF i = 1 THEN 4
    ELSE MiniStart(list, i - 1, fixed) + fixed + Len(list[i - 1].name) + Len(list[i - 1].value)

\* buf is the header 00 00 01 00 and then one record per entry of list, back
\* to back, each of fixed + name length + value length bytes: next-offset
\* (the record's own length, 0 in the last), value length, name length,
\* name, value
MiniChainLayout(buf, list, fixed) ==
    /\ Len(buf) >= 4 /\ SubSeq(buf, 1, 4) = <<0, 0, 1, 0>>
    /\ Len(buf) = MiniStart(list, Len(list) + 1, fixed)
    /\ \A i \in 1..Len(list) :
        LET s == MiniStart(list, i, fixed)
            n == Len(list[i].name)
            v == Len(list[i].value)
        IN  /\ RdU32(buf, s) = IF i = Len(list) THEN 0 ELSE fixed + n + v
            /\ RdU16(buf, s + 4) = v
            /\ Byte(buf, s + 6) = n
            /\ Slice(buf, s + 7, n) = list[i].name
            /\ Slice(buf, s + 7 + n, v) = list[i].value

\* the byte after the value of every record is zero
TrailingZero(buf, list) ==
    \A i \in 1..Len(list) :
        Byte(buf, MiniStart(list, i + 1, LXXATTR_ENTRY_SIZE) - 1) = 0

\* the attributes downgrade adds to LxxattrOut for the file of this run
AddedAttrs == IF ea_buffer # None THEN NamedFrom(LxDotsOf(orig.ea), TRUE) ELSE <<>>

\* C22 as stated: the buffer LxxattrOut builds is the header flags 0,
\* version 1 and then the records back to back, each of exactly 7 + name
\* length + value length bytes with no trailing byte, next-offset being the
\* record's own length and 0 in the last; parse_lxxattr returns the added
\* names and values in order.
C22_NoTrailingByte ==
    \A k \in 1..Len(WrittenChains(oplog)) :
        LET buf == parse_ea(WrittenChains(oplog)[k]).entries[2].value
        IN  AddedAttrs # <<>> =>
                /\ MiniChainLayout(buf, AddedAttrs, 7)
                /\ parse_lxxattr(buf) = [panic |-> FALSE, entries |-> AddedAttrs]

\* C22 amended: after one or more add calls the buffer is the header flags
\* 0, version 1 and then the records back to back, each of exactly 8 + name
\* length + value length bytes (next-offset, value length, name length, name,
\* value and one trailing zero byte; no alignment), next-offset being the
\* record's own length and 0 in the last; parse_lxxattr returns the added
\* names and values in order.  With no add call the buffer is empty.
C22_OneTrailingByte ==
    \A k \in 1..Len(WrittenChains(oplog)) :
        LET buf == parse_ea(WrittenChains(oplog)[k]).entries[2].value
        IN  IF AddedAttrs = <<>> THEN buf = <<>>
            ELSE /\ MiniChainLayout(buf, AddedAttrs, LXXATTR_ENTRY_SIZE)
                 /\ TrailingZero(buf, AddedAttrs)
                 /\ parse_lxxattr(buf) = [panic |-> FALSE, entries |-> AddedAttrs]

\* C22 witness: the mini-chain written for LX.USER.TEST = "hello" and
\* LX.B = "": 4 + (8 + 9 + 5) + (8 + 1 + 0) bytes, the first record linked
\* to the second
C22_Witness ==
    /\ WrittenChains(oplog) # <<>>
    /\ Len(AddedAttrs) = 2
    /\ LET buf == parse_ea(WrittenChains(oplog)[1]).entries[2].value
       IN  /\ Len(buf) = 35
           /\ RdU32(buf, 4) = 22
           /\ RdU32(buf, 26) = 0
           /\ Byte(buf, 25) = 0 /\ Byte(buf, 34) = 0

----------------------------------------------------------------------------
\* What the Scattered codec claims

\* one of the four scalar entries or an LX.* entry was loaded
HasScatteredEntry ==
    \/ wslfs.lxuid # None \/ wslfs.lxgid # None
    \/ wslfs.lxmod # None \/ wslfs.lxdev # None
    \/ wslfs.lx_dot_ea # <<>>

\* the file's reparse tag gives a file type: one of the five tags of WSL
HasTypeOverride == wslfs.reparse_tag \notin {NoTag, "UNKNOWN"}

\* C23 as stated: WslfsParsed::maybe() is false exactly when the four scalar
\* entries are absent, there is no LX.* entry and the file carries no type
\* information of the Scattered scheme; a reparse tag that is none of the
\* five maps to UNKNOWN and counts as no type information, for maybe() as
\* for the migration (no reparse point is deleted, no content written).
C23_UnknownTagIsNoTag ==
    Loaded =>
        /\ wsl_file.reparse_tag = OtherTag => wslfs.reparse_tag = "UNKNOWN"
        /\ Wslfs_maybe(wslfs) <=> (HasScatteredEntry \/ HasTypeOverride)
        /\ ~HasTypeOverride =>
             \A i \in 1..Len(oplog) : oplog[i].op \notin {"delete_reparse_point", "write_data"}

----------------------------------------------------------------------------
\* File-time conversion (checked under SpecTime)

\* tv_nsec is a multiple of 100 below 10^9 and tv_sec is at most
\* 1833029933769, the last second whose tick value fits a u64
TimeInRange(lt) ==
    /\ DivSmall(lt.tv_nsec, 100).r = 0
    /\ LessLimbs(lt.tv_nsec, <<51712, 15258>>)
    /\ ~LessLimbs(<<6857, 51481, 426, 0>>, lt.tv_sec)

\* C24: for an LxfsTime with tv_nsec a multiple of 100 below 10^9 and tv_sec
\* in range, filetime_to_lxfs_time(lxfs_time_to_filetime(t)) = t with no
\* overflow; the tick value divided by 10^7 is tv_sec + 11644473600 and its
\* remainder is tv_nsec / 100.
C24_TimeRoundTrip ==
    (tm.pc \in {"ticks", "done"} /\ TimeInRange(tm.lt)) =>
        /\ tm.res # "panic"
        /\ ~lxfs_time_to_u64(tm.lt).overflow
        /\ DivTicks(filetime_to_u64(tm.ft)) =
             [q |-> AddLimbs(tm.lt.tv_sec, EPOCH_SECS, 0),
              r |-> DivSmall(tm.lt.tv_nsec, 100).q[1] + DivSmall(tm.lt.tv_nsec, 100).q[2] * (2^16)]
        /\ tm.pc = "done" => tm.res = "ok" /\ tm.back = tm.lt

\* C24 witness: the time of test_convert, 1729741525 s 3480100 ns, became
\* the tick value 133742151250034801 and came back unchanged
C24_Witness ==
    /\ tm.pc = "done" /\ tm.res = "ok"
    /\ tm.lt = [tv_sec |-> <<49877, 26393, 0, 0>>, tv_nsec |-> <<6692, 53>>]
    /\ filetime_to_u64(tm.ft) = <<16497, 10433, 9671, 475>>
    /\ tm.back = tm.lt

----------------------------------------------------------------------------
\* The named attributes of the Compact codec: set_attr, rm_attr, save

\* the list of named attributes of an LxfsParsed
LxAttrs(p) == unwrap_or(p.lxxattr, <<>>)

\* this step is the call f of the Compact codec
LxfsCall(f) == chg.use = "Lxfs" /\ SetterCalled /\ ThisCall.f = f

\* the places of the entries called n
PlacesOf(list, n) == {i \in 1..Len(list) : list[i].name = n}

\* the smallest place of a non-empty set of places
FirstOf(places) == CHOOSE i \in places : \A j \in places : i <= j

\* set_attr(n, v): the first entry called n gets the value v in place and
\* every other entry stays as it is; without an entry called n one is
\* appended
SetAttrUpserts ==
    LxfsCall("set_attr") =>
        LET b == LxAttrs(lxfs)
            a == LxAttrs(lxfs')
            n == ThisCall.n
        IN  /\ lxfs'.lxxattr # None
            /\ IF PlacesOf(b, n) = {}
               THEN a = Append(b, [name |-> n, value |-> Some(ThisCall.v), owned |-> TRUE])
               ELSE /\ Len(a) = Len(b)
                    /\ \A i \in 1..Len(b) :
                        IF i = FirstOf(PlacesOf(b, n))
                        THEN a[i].name = n /\ a[i].value = Some(ThisCall.v)
                        ELSE a[i] = b[i]

\* rm_attr(n): the first entry called n keeps its place and name and loses
\* its value; every other entry stays as it is
RmAttrMarks ==
    LxfsCall("rm_attr") =>
        LET b == LxAttrs(lxfs)
            a == LxAttrs(lxfs')
            n == ThisCall.n
        IN  /\ lxfs'.lxxattr # None
            /\ Len(a) = Len(b)
            /\ \A i \in 1..Len(b) :
                IF PlacesOf(b, n) # {} /\ i = FirstOf(PlacesOf(b, n))
                THEN a[i].name = n /\ a[i].value = None
                ELSE a[i] = b[i]

\* save: the LXXATTR entry of the chain holds the entries that have a value,
\* in order (an empty value when there is none), and these are the entries
\* of the list afterwards; without a list no LXXATTR entry is written
SaveEncodesKept ==
    (pc = "c_ready" /\ pc' = "done" /\ chg.use = "Lxfs") =>
        \E kept \in {SelectSeq(LxAttrs(lxfs), LAMBDA x : x.value # None)},
           chain \in {parse_ea(oplog'[Len(oplog')].arg).entries} :
            IF lxfs.lxxattr = None
            THEN ~HasName(chain, LXXATTR) /\ lxfs'.lxxattr = None
            ELSE /\ HasName(chain, LXXATTR)
                 /\ lxfs'.lxxattr = Some(kept)
                 /\ IF kept = <<>> THEN ValueIn(chain, LXXATTR) = <<>>
                    ELSE parse_lxxattr(ValueIn(chain, LXXATTR)) =
                           [panic |-> FALSE,
                            entries |-> [i \in 1..Len(kept) |->
                                           [name |-> kept[i].name, value |-> kept[i].value[1]]]]

\* C25 as stated: set_attr(name, v) leaves exactly one entry of that name,
\* holding v, and the other entries unchanged; rm_attr only marks the entry,
\* which stays in the list until save; save encodes exactly the entries not
\* marked, in order, and the list then holds exactly those.
C25_ExactlyOneEntry ==
    [][/\ SetAttrUpserts
       /\ LxfsCall("set_attr") =>
            Cardinality(PlacesOf(LxAttrs(lxfs'), ThisCall.n)) = 1
       /\ RmAttrMarks
       /\ SaveEncodesKept]_vars

\* C25 amended: set_attr(name, v) gives v to the first entry of that name,
\* in place, or appends an entry when there is none, and leaves every other
\* entry unchanged, so that exactly one entry has the name if at most one
\* had it before; rm_attr only marks the first entry of that name, which
\* stays in the list until save; save encodes exactly the entries not
\* marked, in order, and the list then holds exactly those.
C25_FirstEntry ==
    [][/\ SetAttrUpserts
       /\ (LxfsCall("set_attr") /\ Cardinality(PlacesOf(LxAttrs(lxfs), ThisCall.n)) <= 1) =>
            Cardinality(PlacesOf(LxAttrs(lxfs'), ThisCall.n)) = 1
       /\ RmAttrMarks
       /\ SaveEncodesKept]_vars

\* C25 witness: on a file with the attribute "u", rm_attr("u") and then
\* set_attr("b", "w") were saved: the list in memory held the marked "u"
\* until save, and the list and the LXXATTR written hold "b" = "w" alone
C25_Witness ==
    /\ LxfsSaved /\ outcome = "saved"
    /\ Len(chg.calls) = 2
    /\ chg.calls[1].f = "rm_attr" /\ chg.calls[1].n = <<117>>
    /\ chg.calls[2].f = "set_attr" /\ chg.calls[2].n = <<98>> /\ chg.calls[2].v = <<119>>
    /\ Len(LxAttrs(chg.lxfs0)) = 1
    /\ lxfs.lxxattr = Some(<<[name |-> <<98>>, value |-> Some(<<119>>), owned |-> TRUE]>>)
    /\ parse_lxxattr(ValueIn(disk.ea, LXXATTR)).entries = <<[name |-> <<98>>, value |-> <<119>>]>>

----------------------------------------------------------------------------
\* The symlink target the Compact codec loads

\* the decoded LXATTRB says that the file is a symbolic link
LxattrbIsLink ==
    /\ HasName(DecodedEas, LXATTRB)
    /\ IsLnkMode(RdU32(ValueIn(DecodedEas, LXATTRB), 4))

\* C26 as stated: when the mode of the decoded LXATTRB is that of a symbolic
\* link, load sets the symlink target to exactly the bytes of the file
\* content, no byte added; with any other mode, or without LXATTRB, the
\* target is none.
C26_TargetIsContent ==
    Loaded =>
        IF LxattrbIsLink
        THEN lxfs.symlink = Some(orig.content)
        ELSE lxfs.symlink = None

----------------------------------------------------------------------------
\* Write access

\* the OS calls that change the file
MutatingOps == {"write_ea", "delete_reparse_point", "write_data"}

\* C27 as stated: the file is first opened read-only, and an EA write, a
\* reparse-point delete or a content write is issued only after a reopen for
\* writing that succeeded; after a reopen that failed no such call is
\* issued.
C27_WriteOnlyAfterReopen ==
    /\ pc \in {"opened", "loaded"} => wsl_file.file_handle = "ro" /\ ~wsl_file.writable
    /\ \A i \in 1..Len(oplog) :
        oplog[i].op \in MutatingOps =>
            \E j \in 1..(i - 1) : oplog[j].op = "reopen_to_write" /\ oplog[j].ok

----------------------------------------------------------------------------
\* The layout EaOut leaves in its buffer

\* bytes a record uses before padding: 8 header bytes, the name, its NUL,
\* the value
UsedSize(e) == 9 + Len(e.name) + Len(e.value)

\* the same, rounded up to a multiple of 4
AlignedSize(e) == ((UsedSize(e) + 3) \div 4) * 4

\* where record i starts when the records lie back to back
RECURSIVE ChainStart(_, _)
ChainStart(list, i) ==
    IF i = 1 THEN 0 ELSE ChainStart(list, i - 1) + AlignedSize(list[i - 1])

\* buf is the well-formed chain of the entries of list
LinkedChain(buf, list) ==
    LET n == Len(list)
    IN  /\ Len(buf) = ChainStart(list, n) + AlignedSize(list[n])
        /\ \A i \in 1..n :
            LET s  == ChainStart(list, i)
                nl == Len(list[i].name)
                vl == Len(list[i].value)
            IN  /\ RdU32(buf, s) = (IF i < n THEN AlignedSize(list[i]) ELSE 0)
                /\ Byte(buf, s + 4) = 0
                /\ Byte(buf, s + 5) = nl
                /\ RdU16(buf, s + 6) = vl
                /\ SubSeq(buf, s + 9, s + 8 + nl) = list[i].name
                /\ Byte(buf, s + 8 + nl) = 0
                /\ SubSeq(buf, s + 10 + nl, s + 9 + nl + vl) = list[i].value
                /\ \A k \in UsedSize(list[i])..(AlignedSize(list[i]) - 1) :
                    Byte(buf, s + k) = 0

\* C28: after n >= 1 add / add_entry calls the buffer is a chain of exactly n
\* records laid back to back and count() is n: record i starts where record
\* i-1 ends, every record but the last has a next-offset equal to its own
\* aligned size, the last one has next-offset 0, padding bytes are zero, and
\* the buffer length is the sum of the aligned record sizes.
C28_EncoderLinks ==
    /\ (phase = "encode" /\ added # <<>>) =>
        /\ ea_out.count = Len(added)
        /\ LinkedChain(ea_out.buff, added)
    /\ (phase = "reencoded" /\ parsed.entries # <<>>) =>
        /\ ea_out.count = Len(parsed.entries)
        /\ LinkedChain(ea_out.buff, parsed.entries)

C28_Witness ==
    /\ phase = "encode"
    /\ ea_out.count = 2
    /\ UsedSize(added[1]) = 11
    /\ UsedSize(added[2]) = 13
    /\ RdU32(ea_out.buff, 0) = 12
    /\ RdU32(ea_out.buff, 12) = 0
    /\ Byte(ea_out.buff, 11) = 0
    /\ Len(ea_out.buff) = 28

----------------------------------------------------------------------------
\* The named attributes of the Scattered codec: set_attr, rm_attr

\* no two entries of the list have the same on-disk name
UniqueNames(list) ==
    \A i, j \in 1..Len(list) : list[i].name = list[j].name => i = j

\* C29 as stated: starting from a list with unique on-disk names, after any
\* sequence of set_attr / rm_attr calls on WslfsParsed, with names in any
\* letter case, the list never holds two entries with the same on-disk name.
C29_NamesStayUnique ==
    (chg.use = "Wslfs" /\ UniqueNames(chg.wslfs0.lx_dot_ea)) =>
        UniqueNames(wslfs.lx_dot_ea)

----------------------------------------------------------------------------
\* The value marker in the migration

\* the EAs were read and one LX.* entry of the file has a value that does not
\* begin with the marker lxea
HasUnmarkedValue ==
    /\ ea_buffer # None
    /\ \E i \in 1..Len(orig.ea) :
        starts_with(orig.ea[i].name, LX_DOT) /\ ~starts_with(orig.ea[i].value, LXEA)

\* C30 as stated: an LX.* value shorter than 4 bytes or not starting with
\* the marker makes the migration of the file fail before anything is
\* written: the file stays as it was and the run does not end as a
\* conversion.
C30_MarkerChecked ==
    HasUnmarkedValue =>
        /\ disk = orig
        /\ outcome # "converted"

====
